---- MODULE Spec2Model ----
(***************************************************************************)
(* The conversational task-assistant request handler of basictodo: the     *)
(* POST route of the AI agent, the zod schemas it validates with, the task *)
(* helpers (listTasks, createTask, updateTask, deleteTask), processAIChat, *)
(* and the tasks table behind them (row level security, column defaults,   *)
(* updated_at trigger).                                                    *)
(*                                                                         *)
(* JSON values are tagged records, so that a schema check is a check of    *)
(* the tag, as zod checks typeof.  A JSON string carries its syntactic     *)
(* class: free text (a sequence of characters), a UUID, or a date-time in  *)
(* one of the three notations that occur (ISO with Z, datetime-local,      *)
(* ISO with +00:00 offset as PostgREST prints a timestamptz).              *)
(***************************************************************************)
EXTENDS Integers, Sequences, FiniteSets, TLC

\* ---------------------------------------------------------------- bounds
MaxCalls == 2       \* tool calls in one model reply
MaxRequests == 2    \* requests handled in one behaviour
MaxFaults == 1      \* injected store / identity failures in one behaviour
MaxClock == 1       \* the clock runs 0..MaxClock

\* ------------------------------------------------------- program constants
TitleMax == 500
MessageMax == 2000
DurationMin == 1
DurationMax == 1440

\* ------------------------------------------------------------ JSON values
Undefined == [t |-> "undefined"]
JNull == [t |-> "null"]
JNum(n) == [t |-> "number", v |-> n]
JStr(syn, v) == [t |-> "string", syn |-> syn, v |-> v]
JText(chars) == JStr("text", chars)
JUuid(n) == JStr("uuid", n)
JIsoZ(at) == JStr("isoZ", at)
JLocal(at) == JStr("local", at)
JTz(at) == JStr("tz", at)
JArr(s) == [t |-> "array", v |-> s]
JObj(f) == [t |-> "object", v |-> f]
EmptyObj == JObj(<<>>)

Has(o, k) == o.t = "object" /\ k \in DOMAIN o.v
Get(o, k) == IF Has(o, k) THEN o.v[k] ELSE Undefined

\* String.length
StrLen(x) ==
  CASE x.syn = "text" -> Len(x.v)
    [] x.syn = "uuid" -> 36
    [] x.syn = "isoZ" -> 20
    [] x.syn = "local" -> 16
    [] x.syn = "tz" -> 25

\* the literals the code and the schemas name
S_pending == <<"p", "e", "n", "d", "i", "n", "g">>
S_done == <<"d", "o", "n", "e">>
S_high == <<"h", "i", "g", "h">>
S_shopping == <<"s", "h", "o", "p", "p", "i", "n", "g">>
S_today == <<"t", "o", "d", "a", "y">>
S_overdue == <<"o", "v", "e", "r", "d", "u", "e">>
S_upcoming == <<"u", "p", "c", "o", "m", "i", "n", "g">>

TaskStatus == {S_pending, S_done}
TaskPriority == {<<"l", "o", "w">>, <<"m", "e", "d", "i", "u", "m">>, S_high, <<"u", "r", "g", "e", "n", "t">>}
TaskCategory == {<<"p", "e", "r", "s", "o", "n", "a", "l">>, <<"w", "o", "r", "k">>, <<"h", "e", "a", "l", "t", "h">>, <<"f", "i", "n", "a", "n", "c", "e">>, <<"e", "d", "u", "c", "a", "t", "i", "o", "n">>, S_shopping, <<"o", "t", "h", "e", "r">>}

\* ------------------------------------------------------------ zod schemas
\* Every check returns the sequence of issues zod would add (<<>>: none).
Issue(code, path) == [code |-> code, path |-> path]

IsString(x) == x.t = "string"

\* z.string()
ZString(x, path) ==
  IF IsString(x) THEN <<>> ELSE <<Issue("invalid_type", path)>>

\* mutant: the length of the string is not checked
ZStringAnyLength(x, lo, hi, path) ==
  IF ~IsString(x) THEN <<Issue("invalid_type", path)>> ELSE <<>>

\* z.string().min(lo).max(hi)
ZStringMinMax(x, lo, hi, path) ==
  IF ~IsString(x) THEN <<Issue("invalid_type", path)>>
  ELSE IF StrLen(x) < lo THEN <<Issue("too_small", path)>>
  ELSE IF StrLen(x) > hi THEN <<Issue("too_big", path)>>
  ELSE <<>>

\* z.string().uuid()
ZUuid(x, path) ==
  IF ~IsString(x) THEN <<Issue("invalid_type", path)>>
  ELSE IF x.syn # "uuid" THEN <<Issue("invalid_string", path)>>
  ELSE <<>>

\* z.string().datetime(): ISO 8601 with Z, no offset
ZDatetime(x, path) ==
  IF ~IsString(x) THEN <<Issue("invalid_type", path)>>
  ELSE IF x.syn # "isoZ" THEN <<Issue("invalid_string", path)>>
  ELSE <<>>

\* z.union([z.string().datetime(), z.string().regex(datetime-local), z.null()])
ZDueAtInput(x, path) ==
  IF x.t = "null" THEN <<>>
  ELSE IF IsString(x) /\ x.syn \in {"isoZ", "local"} THEN <<>>
  ELSE <<Issue("invalid_union", path)>>

\* z.enum([...])
ZEnum(x, members, path) ==
  IF ~IsString(x) THEN <<Issue("invalid_type", path)>>
  ELSE IF x.syn = "text" /\ x.v \in members THEN <<>>
  ELSE <<Issue("invalid_enum_value", path)>>

\* z.array(z.string())
ZStringArray(x, path) ==
  IF x.t # "array" THEN <<Issue("invalid_type", path)>>
  ELSE IF \A i \in 1..Len(x.v) : IsString(x.v[i]) THEN <<>>
  ELSE <<Issue("invalid_type", path)>>

\* z.number().int()
ZInt(x, path) ==
  IF x.t # "number" THEN <<Issue("invalid_type", path)>> ELSE <<>>

\* z.number().int().min(1).max(1440)  (.or(z.nan()) never matches a JSON value)
ZDuration(x, path) ==
  IF x.t # "number" THEN <<Issue("invalid_union", path)>>
  ELSE IF x.v < DurationMin \/ x.v > DurationMax THEN <<Issue("invalid_union", path)>>
  ELSE <<>>

\* schema.optional() / schema.nullable()
Optional(x, issues) == IF x.t = "undefined" THEN <<>> ELSE issues
Nullable(x, issues) == IF x.t = "null" THEN <<>> ELSE issues

\* z.object strips the keys the schema does not declare
Strip(data, keys) == JObj([k \in (DOMAIN data.v) \cap keys |-> data.v[k]])

ParseResult(data, issues, keys) ==
  IF Len(issues) = 0
  THEN [ok |-> TRUE, value |-> Strip(data, keys)]
  ELSE [ok |-> FALSE, error |-> [kind |-> "issues", issues |-> issues]]

CreateTaskKeys ==
  {"title", "description", "due_at", "priority", "category", "tags",
   "estimated_duration_minutes", "notes"}

CreateTaskIssues(d) ==
  IF d.t # "object" THEN <<Issue("invalid_type", "")>>
  ELSE ZStringMinMax(Get(d, "title"), 1, TitleMax, "title")
    \o Optional(Get(d, "description"), ZString(Get(d, "description"), "description"))
    \o Optional(Get(d, "due_at"), ZDueAtInput(Get(d, "due_at"), "due_at"))
    \o Optional(Get(d, "priority"), ZEnum(Get(d, "priority"), TaskPriority, "priority"))
    \o Optional(Get(d, "category"), ZEnum(Get(d, "category"), TaskCategory, "category"))
    \o Optional(Get(d, "tags"), ZStringArray(Get(d, "tags"), "tags"))
    \o Optional(Get(d, "estimated_duration_minutes"),
                ZDuration(Get(d, "estimated_duration_minutes"), "estimated_duration_minutes"))
    \o Optional(Get(d, "notes"), ZString(Get(d, "notes"), "notes"))

validateCreateTask(d) == ParseResult(d, CreateTaskIssues(d), CreateTaskKeys)

UpdateTaskKeys == CreateTaskKeys \cup {"status"}

UpdateTaskIssues(d) ==
  IF d.t # "object" THEN <<Issue("invalid_type", "")>>
  ELSE Optional(Get(d, "title"), ZStringMinMax(Get(d, "title"), 1, TitleMax, "title"))
    \o Optional(Get(d, "description"), ZString(Get(d, "description"), "description"))
    \o Optional(Get(d, "due_at"), ZDueAtInput(Get(d, "due_at"), "due_at"))
    \o Optional(Get(d, "status"), ZEnum(Get(d, "status"), TaskStatus, "status"))
    \o Optional(Get(d, "priority"), ZEnum(Get(d, "priority"), TaskPriority, "priority"))
    \o Optional(Get(d, "category"), ZEnum(Get(d, "category"), TaskCategory, "category"))
    \o Optional(Get(d, "tags"), ZStringArray(Get(d, "tags"), "tags"))
    \o Optional(Get(d, "estimated_duration_minutes"),
                ZDuration(Get(d, "estimated_duration_minutes"), "estimated_duration_minutes"))
    \o Optional(Get(d, "notes"), ZString(Get(d, "notes"), "notes"))

validateUpdateTask(d) == ParseResult(d, UpdateTaskIssues(d), UpdateTaskKeys)

TaskKeys ==
  {"id", "user_id", "title", "description", "due_at", "status", "priority", "category",
   "tags", "estimated_duration_minutes", "notes", "created_at", "updated_at",
   "last_reminder_sent"}

TaskIssues(d) ==
  IF d.t # "object" THEN <<Issue("invalid_type", "context.tasks")>>
  ELSE ZUuid(Get(d, "id"), "id")
    \o ZUuid(Get(d, "user_id"), "user_id")
    \o ZStringMinMax(Get(d, "title"), 1, TitleMax, "title")
    \o Nullable(Get(d, "description"), ZString(Get(d, "description"), "description"))
    \o Nullable(Get(d, "due_at"), ZDatetime(Get(d, "due_at"), "due_at"))
    \o ZEnum(Get(d, "status"), TaskStatus, "status")
    \o Nullable(Get(d, "priority"), ZEnum(Get(d, "priority"), TaskPriority, "priority"))
    \o Nullable(Get(d, "category"), ZEnum(Get(d, "category"), TaskCategory, "category"))
    \o Nullable(Get(d, "tags"), ZStringArray(Get(d, "tags"), "tags"))
    \o Nullable(Get(d, "estimated_duration_minutes"),
                ZInt(Get(d, "estimated_duration_minutes"), "estimated_duration_minutes"))
    \o Nullable(Get(d, "notes"), ZString(Get(d, "notes"), "notes"))
    \o ZDatetime(Get(d, "created_at"), "created_at")
    \o ZDatetime(Get(d, "updated_at"), "updated_at")
    \o Nullable(Get(d, "last_reminder_sent"),
                ZDatetime(Get(d, "last_reminder_sent"), "last_reminder_sent"))

RECURSIVE TaskArrayIssues(_, _)
TaskArrayIssues(s, i) ==
  IF i > Len(s) THEN <<>> ELSE TaskIssues(s[i]) \o TaskArrayIssues(s, i + 1)

\* context: z.object({tasks: z.array(TaskSchema).optional(), preferences: ...}).optional()
\* (no request of the model carries preferences)
ContextIssues(c) ==
  IF c.t # "object" THEN <<Issue("invalid_type", "context")>>
  ELSE Optional(Get(c, "tasks"),
                IF Get(c, "tasks").t # "array"
                THEN <<Issue("invalid_type", "context.tasks")>>
                ELSE TaskArrayIssues(Get(c, "tasks").v, 1))

ChatRequestIssues(d) ==
  IF d.t # "object" THEN <<Issue("invalid_type", "")>>
  ELSE ZStringMinMax(Get(d, "message"), 1, MessageMax, "message")
    \o Optional(Get(d, "context"), ContextIssues(Get(d, "context")))

validateChatRequest(d) == ParseResult(d, ChatRequestIssues(d), {"message", "context"})

\* ------------------------------------------------- identity provider (auth)
UserA == JUuid(101)
UserB == JUuid(102)
NoUser == JNull

\* the user a bearer token stands for (auth.uid() of a request made with it)
SessionUser(token) ==
  CASE token = "tokA" -> UserA
    [] token = "tokB" -> UserB
    [] OTHER -> NoUser

\* mutant: the error of getUser is not looked at
GetUserTrusting(token, fault) == [user |-> SessionUser(token), error |-> FALSE]

\* supabase.auth.getUser(): {data: {user}, error}; fault: the provider is unreachable
GetUser(token, fault) ==
  IF fault \/ SessionUser(token) = NoUser
  THEN [user |-> NoUser, error |-> TRUE]
  ELSE [user |-> SessionUser(token), error |-> FALSE]

\* ----------------------------------------------------- the tasks table
\* A table is the sequence of its rows in insertion order; a row is a record
\* whose fields are the JSON values PostgREST returns for its columns.
NoError == [code |-> "", message |-> ""]
FetchFailed == [code |-> "fetch", message |-> "TypeError: fetch failed"]
BadUuid == [code |-> "22P02", message |-> "invalid input syntax for type uuid"]
NoRows == [code |-> "PGRST116", message |-> "JSON object requested, multiple (or no) rows returned"]
RlsDenied == [code |-> "42501", message |-> "new row violates row-level security policy"]

TimestampColumns == {"due_at", "created_at", "updated_at", "last_reminder_sent"}

\* a TIMESTAMPTZ column keeps the instant and prints it with a +00:00 offset
ToTimestamptz(x) == IF x.t = "null" THEN JNull ELSE JTz(x.v)

Column(k, x) == IF k \in TimestampColumns THEN ToTimestamptz(x) ELSE x

\* mutant: updated_at defaults to the epoch, not to NOW()
DefaultRowEpochUpdated(id, now) ==
  [id |-> JUuid(id), user_id |-> JNull, title |-> JNull, description |-> JNull,
   due_at |-> JNull, status |-> JText(S_pending), priority |-> JNull,
   category |-> JNull, tags |-> JNull, estimated_duration_minutes |-> JNull,
   notes |-> JNull, created_at |-> JTz(now), updated_at |-> JTz(0),
   last_reminder_sent |-> JNull]

\* a new row: the columns of tasks.Row, at the defaults of CREATE TABLE tasks
DefaultRow(id, now) ==
  [id |-> JUuid(id), user_id |-> JNull, title |-> JNull, description |-> JNull,
   due_at |-> JNull, status |-> JText(S_pending), priority |-> JNull,
   category |-> JNull, tags |-> JNull, estimated_duration_minutes |-> JNull,
   notes |-> JNull, created_at |-> JTz(now), updated_at |-> JTz(now),
   last_reminder_sent |-> JNull]

\* mutant: an update writes a whole row, blanking what its payload lacks
PatchedWholeRow(row, payload) ==
  [k \in DOMAIN row |->
     IF k \in DOMAIN payload THEN Column(k, payload[k])
     ELSE IF k \in {"id", "user_id", "created_at", "status"} THEN row[k] ELSE JNull]

Patched(row, payload) ==
  [k \in DOMAIN row |-> IF k \in DOMAIN payload THEN Column(k, payload[k]) ELSE row[k]]

\* mutant: no row level security
VisibleToAll(row, uid) == TRUE

\* policies "Users can ... their own tasks": USING (auth.uid() = user_id)
Visible(row, uid) == row.user_id = uid

IsUuid(x) == x.t = "string" /\ x.syn = "uuid"

\* .eq('id', taskId): the rows of the caller with that id
Matching(table, taskId, uid) ==
  {i \in 1..Len(table) : Visible(table[i], uid) /\ table[i].id = taskId}

Remove(s, i) == SubSeq(s, 1, i - 1) \o SubSeq(s, i + 1, Len(s))

\* .order('created_at', {ascending: false}); rows of equal created_at come
\* latest insertion first
RECURSIVE OrderByCreatedDesc(_)
OrderByCreatedDesc(s) ==
  IF Len(s) = 0 THEN <<>>
  ELSE LET i == CHOOSE i \in 1..Len(s) :
                  /\ \A j \in 1..Len(s) : s[j].created_at.v <= s[i].created_at.v
                  /\ \A j \in (i + 1)..Len(s) : s[j].created_at.v < s[i].created_at.v
       IN <<s[i]>> \o OrderByCreatedDesc(Remove(s, i))

\* from('tasks').select('*')[.eq('status', status)].order(...)
DbSelect(table, uid, status, fault) ==
  IF fault THEN [error |-> FetchFailed, data |-> JNull, table |-> table]
  ELSE LET rows == SelectSeq(table,
                     LAMBDA r : Visible(r, uid)
                                /\ (status.t = "undefined" \/ r.status = status))
       IN [error |-> NoError, data |-> OrderByCreatedDesc(rows), table |-> table]

\* from('tasks').insert(payload).select().single()
DbInsert(table, payload, uid, id, now, fault) ==
  IF fault THEN [error |-> FetchFailed, data |-> JNull, table |-> table]
  ELSE IF payload.user_id # uid THEN [error |-> RlsDenied, data |-> JNull, table |-> table]
  ELSE LET row == Patched(DefaultRow(id, now), payload)
       IN [error |-> NoError, data |-> row, table |-> Append(table, row)]

\* mutant: the store writes the updated row under the other owner
DbUpdateReowning(table, payload, taskId, uid, now, fault) ==
  IF fault THEN [error |-> FetchFailed, data |-> JNull, table |-> table]
  ELSE IF ~IsUuid(taskId) THEN [error |-> BadUuid, data |-> JNull, table |-> table]
  ELSE IF Matching(table, taskId, uid) = {}
       THEN [error |-> NoRows, data |-> JNull, table |-> table]
  ELSE LET i == CHOOSE i \in Matching(table, taskId, uid) : TRUE
           row == [Patched(table[i], payload) EXCEPT !.updated_at = JTz(now),
                                                     !.user_id = JUuid(102)]
       IN [error |-> NoError, data |-> row, table |-> [table EXCEPT ![i] = row]]

\* from('tasks').update(payload).eq('id', taskId).select().single(); the trigger
\* update_tasks_updated_at sets updated_at = NOW() on every updated row, and the
\* update policy, which has no WITH CHECK of its own, is checked on the new row
DbUpdate(table, payload, taskId, uid, now, fault) ==
  IF fault THEN [error |-> FetchFailed, data |-> JNull, table |-> table]
  ELSE IF ~IsUuid(taskId) THEN [error |-> BadUuid, data |-> JNull, table |-> table]
  ELSE IF Matching(table, taskId, uid) = {}
       THEN [error |-> NoRows, data |-> JNull, table |-> table]
  ELSE LET i == CHOOSE i \in Matching(table, taskId, uid) : TRUE
           row == [Patched(table[i], payload) EXCEPT !.updated_at = JTz(now)]
       IN IF ~Visible(row, uid)
          THEN [error |-> RlsDenied, data |-> JNull, table |-> table]
          ELSE [error |-> NoError, data |-> row, table |-> [table EXCEPT ![i] = row]]

\* from('tasks').delete().eq('id', taskId)
DbDelete(table, taskId, uid, fault) ==
  IF fault THEN [error |-> FetchFailed, data |-> JNull, table |-> table]
  ELSE IF ~IsUuid(taskId) THEN [error |-> BadUuid, data |-> JNull, table |-> table]
  ELSE [error |-> NoError, data |-> JNull,
        table |-> SelectSeq(table, LAMBDA r : ~(Visible(r, uid) /\ r.id = taskId))]

\* ------------------------------------------------------------ tasks.ts
\* Each helper returns what it returned or threw, the table after it, and the
\* store calls it made, each with the error code the store answered ("": none).
StoreCall(op, r) == <<[op |-> op, code |-> r.error.code]>>
\* the calls of a helper, each with the invocation that made it (0: the handler)
Tagged(n, calls) ==
  [k \in 1..Len(calls) |-> [call |-> n, op |-> calls[k].op, code |-> calls[k].code]]
Text(head, tail) == [kind |-> "text", head |-> head, tail |-> tail]
Returned(value, table, calls) ==
  [threw |-> FALSE, value |-> value, table |-> table, calls |-> calls]
Threw(error, table, calls) ==
  [threw |-> TRUE, error |-> error, table |-> table, calls |-> calls]

\* x || null
OrNull(x) ==
  IF x.t \in {"undefined", "null"} THEN JNull
  ELSE IF IsString(x) /\ StrLen(x) = 0 THEN JNull
  ELSE x

listTasks(table, token, status, fault) ==
  LET r == DbSelect(table, SessionUser(token), status, fault)
  IN IF r.error.code # ""
     THEN Threw(Text("Failed to list tasks: ", r.error.message), table, StoreCall("select", r))
     ELSE Returned(r.data, table, StoreCall("select", r))

\* mutant: the status is not forced to pending
CreatePayloadDone(validated, user) ==
  [title |-> Get(validated, "title"),
   due_at |-> OrNull(Get(validated, "due_at")),
   status |-> JText(S_done),
   user_id |-> user]

CreatePayload(validated, user) ==
  [title |-> Get(validated, "title"),
   due_at |-> OrNull(Get(validated, "due_at")),
   status |-> JText(S_pending),
   user_id |-> user]

createTask(table, token, input, id, now, authFault, fault) ==
  LET v == validateCreateTask(input)
      u == GetUser(token, authFault)
      r == DbInsert(table, CreatePayload(v.value, u.user), SessionUser(token), id, now, fault)
  IN IF ~v.ok THEN Threw(v.error, table, <<>>)
     ELSE IF u.error
          THEN Threw(Text("User must be authenticated to create tasks", ""), table, <<>>)
     ELSE IF r.error.code # ""
          THEN Threw(Text("Failed to create task: ", r.error.message), table,
                     StoreCall("insert", r))
     ELSE Returned(r.data, r.table, StoreCall("insert", r))

\* mutant: the update writes only the columns createTask writes
UpdatePayloadTitleDueStatus(validated, now) ==
  [k \in ((DOMAIN validated.v) \cap {"title", "due_at", "status"}) \cup {"updated_at"} |->
     IF k = "updated_at" THEN JIsoZ(now) ELSE validated.v[k]]

UpdatePayload(validated, now) ==
  [k \in (DOMAIN validated.v) \cup {"updated_at"} |->
     IF k = "updated_at" THEN JIsoZ(now) ELSE validated.v[k]]

\* mutant: the code PGRST116 is reported like any other store error
updateTaskWithoutNotFound(table, token, taskId, input, now, fault) ==
  LET v == validateUpdateTask(input)
      r == DbUpdate(table, UpdatePayload(v.value, now), taskId, SessionUser(token), now, fault)
  IN IF ~v.ok THEN Threw(v.error, table, <<>>)
     ELSE IF r.error.code # ""
          THEN Threw(Text("Failed to update task: ", r.error.message), table,
                     StoreCall("update", r))
     ELSE Returned(r.data, r.table, StoreCall("update", r))

updateTask(table, token, taskId, input, now, fault) ==
  LET v == validateUpdateTask(input)
      r == DbUpdate(table, UpdatePayload(v.value, now), taskId, SessionUser(token), now, fault)
  IN IF ~v.ok THEN Threw(v.error, table, <<>>)
     ELSE IF r.error.code = "PGRST116"
          THEN Threw(Text("Task not found", ""), table, StoreCall("update", r))
     ELSE IF r.error.code # ""
          THEN Threw(Text("Failed to update task: ", r.error.message), table,
                     StoreCall("update", r))
     ELSE Returned(r.data, r.table, StoreCall("update", r))

\* mutant: a delete the store refused is tried once more
deleteTaskRetrying(table, token, taskId, fault) ==
  LET r == DbDelete(table, taskId, SessionUser(token), fault)
      again == DbDelete(table, taskId, SessionUser(token), FALSE)
  IN IF r.error.code = "" THEN Returned(Undefined, r.table, StoreCall("delete", r))
     ELSE IF again.error.code # ""
          THEN Threw(Text("Failed to delete task: ", again.error.message), table,
                     StoreCall("delete", r) \o StoreCall("delete", again))
     ELSE Returned(Undefined, again.table,
                   StoreCall("delete", r) \o StoreCall("delete", again))

deleteTask(table, token, taskId, fault) ==
  LET r == DbDelete(table, taskId, SessionUser(token), fault)
  IN IF r.error.code # ""
     THEN Threw(Text("Failed to delete task: ", r.error.message), table,
                StoreCall("delete", r))
     ELSE Returned(Undefined, r.table, StoreCall("delete", r))

\* ------------------------------------------------------- processAIChat
FallbackMessage == "I apologize, but I encountered an error processing your request. Please try again."
EmptyContentMessage == "I apologize, but I couldn't process your request."

\* a JSON text: well formed (and then the value it denotes) or not
Json(value) == [wellFormed |-> TRUE, value |-> value]
Malformed == [wellFormed |-> FALSE]

\* choice.message.tool_calls.map(call => ({id, function: name, arguments: JSON.parse(...)}))
ParsedCalls(calls) ==
  [k \in 1..Len(calls) |->
     [id |-> calls[k].id,
      function |-> calls[k].function.name,
      arguments |-> calls[k].function.arguments.value]]

\* mutant: a failed model call is answered like a reply without text
processAIChatOtherFallback(reply) ==
  IF reply.kind # "ok" THEN [message |-> EmptyContentMessage]
  ELSE IF Len(reply.choices) = 0 THEN [message |-> EmptyContentMessage]
  ELSE LET m == reply.choices[1].message
           text == IF m.content = "" THEN EmptyContentMessage ELSE m.content
       IN IF "tool_calls" \in DOMAIN m /\ Len(m.tool_calls) > 0
          THEN IF \E k \in 1..Len(m.tool_calls) :
                    ~m.tool_calls[k].function.arguments.wellFormed
               THEN [message |-> FallbackMessage]
               ELSE [message |-> text, toolCalls |-> ParsedCalls(m.tool_calls)]
          ELSE [message |-> text]

\* mutant: the text of a reply without tool calls is not handed on
processAIChatDroppingText(reply) ==
  IF reply.kind # "ok" THEN [message |-> FallbackMessage]
  ELSE IF Len(reply.choices) = 0 THEN [message |-> FallbackMessage]
  ELSE LET m == reply.choices[1].message
           text == IF m.content = "" THEN EmptyContentMessage ELSE m.content
       IN IF "tool_calls" \in DOMAIN m /\ Len(m.tool_calls) > 0
          THEN IF \E k \in 1..Len(m.tool_calls) :
                    ~m.tool_calls[k].function.arguments.wellFormed
               THEN [message |-> FallbackMessage]
               ELSE [message |-> text, toolCalls |-> ParsedCalls(m.tool_calls)]
          ELSE [message |-> EmptyContentMessage]

\* mutant: a tool call whose arguments do not parse is skipped
processAIChatSkippingMalformed(reply) ==
  IF reply.kind # "ok" THEN [message |-> FallbackMessage]
  ELSE IF Len(reply.choices) = 0 THEN [message |-> FallbackMessage]
  ELSE LET m == reply.choices[1].message
           text == IF m.content = "" THEN EmptyContentMessage ELSE m.content
       IN IF "tool_calls" \in DOMAIN m /\ Len(m.tool_calls) > 0
          THEN [message |-> text,
                toolCalls |-> ParsedCalls(SelectSeq(m.tool_calls,
                                LAMBDA c : c.function.arguments.wellFormed))]
          ELSE [message |-> text]

\* reply: what callOpenRouter met: a network failure, a non-success status, or
\* a response body with its choices
processAIChat(reply) ==
  IF reply.kind # "ok" THEN [message |-> FallbackMessage]
  ELSE IF Len(reply.choices) = 0 THEN [message |-> FallbackMessage]
  ELSE LET m == reply.choices[1].message
           text == IF m.content = "" THEN EmptyContentMessage ELSE m.content
       IN IF "tool_calls" \in DOMAIN m /\ Len(m.tool_calls) > 0
          THEN IF \E k \in 1..Len(m.tool_calls) :
                    ~m.tool_calls[k].function.arguments.wellFormed
               THEN [message |-> FallbackMessage]
               ELSE [message |-> text, toolCalls |-> ParsedCalls(m.tool_calls)]
          ELSE [message |-> text]

\* ------------------------------------------------- inputs of the model
T_milk == <<"M", "i", "l", "k">>
T_soy == <<"s", "o", "y">>
T_long == [k \in 1..(TitleMax + 1) |-> "x"]
M_long == [k \in 1..(MessageMax + 1) |-> "x"]

Own == JUuid(1)        \* a task of user A in the initial table
Foreign == JUuid(2)    \* a task of user B in the initial table
Missing == JUuid(99)   \* an id no row ever has

FullBag ==
  JObj([title |-> JText(T_milk), description |-> JText(T_soy), due_at |-> JIsoZ(1),
        priority |-> JText(S_high), category |-> JText(S_shopping),
        tags |-> JArr(<<JText(T_soy)>>), estimated_duration_minutes |-> JNum(30),
        notes |-> JText(T_soy), status |-> JText(S_done), user_id |-> UserB])

\* the tool calls a model reply is drawn from: <<function name, arguments text>>
ToolCallMenu ==
  << <<"create_task", Json(JObj([title |-> JText(T_milk)]))>>,
     <<"create_task", Json(FullBag)>>,
     <<"create_task", Json(JObj([title |-> JText(<<>>)]))>>,
     <<"create_task", Json(JObj([title |-> JText(T_long)]))>>,
     <<"create_task", Json(EmptyObj)>>,
     <<"create_task", Json(JObj([title |-> JNum(5)]))>>,
     <<"create_task", Json(JObj([title |-> JText(T_milk), priority |-> JText(T_soy)]))>>,
     <<"create_task", Json(JObj([title |-> JText(T_milk),
                                 estimated_duration_minutes |-> JNum(DurationMax + 1)]))>>,
     <<"update_task", Json(JObj([task_id |-> Own, status |-> JText(S_done)]))>>,
     <<"update_task", Json(JObj([task_id |-> Own, title |-> JText(<<>>)]))>>,
     <<"update_task", Json(JObj([task_id |-> Missing, title |-> JText(T_soy)]))>>,
     <<"update_task", Json(JObj([title |-> JText(T_soy)]))>>,
     <<"update_task", Json(JObj([task_id |-> Foreign, title |-> JText(T_soy),
                                 user_id |-> UserA]))>>,
     <<"delete_task", Json(JObj([task_id |-> Own]))>>,
     <<"delete_task", Json(JObj([task_id |-> Missing]))>>,
     <<"delete_task", Json(EmptyObj)>>,
     <<"list_tasks", Json(EmptyObj)>>,
     <<"list_tasks", Json(JObj([status |-> JText(T_soy)]))>>,
     <<"list_tasks", Json(JObj([status |-> JText(S_pending), due_filter |-> JText(S_overdue)]))>>,
     <<"archive_task", Json(JObj([task_id |-> Own]))>>,
     <<"create_task", Malformed>>,
     <<"list_tasks", Json(JObj([due_filter |-> JText(S_overdue)]))>>,
     <<"delete_task", Json(JObj([task_id |-> Foreign]))>>,
     <<"update_task", Json(JObj([task_id |-> Own, description |-> JText(T_soy),
                                 due_at |-> JLocal(1), user_id |-> UserB,
                                 created_at |-> JIsoZ(1)]))>> >>

RawCall(k, pick) ==
  [id |-> <<"call", k>>, type |-> "function",
   function |-> [name |-> ToolCallMenu[pick][1], arguments |-> ToolCallMenu[pick][2]]]

\* what callOpenRouter meets: fetch throws, a non-success status, a body with
\* no choice, a reply of text alone (or of no text), a reply with tool calls
ReplyKinds == {"network", "status", "nochoice", "text", "empty", "calls"}

Reply(kind, picks) ==
  CASE kind \in {"network", "status"} -> [kind |-> kind]
    [] kind = "nochoice" -> [kind |-> "ok", choices |-> <<>>]
    [] kind = "text" ->
         [kind |-> "ok", choices |-> <<[message |-> [role |-> "assistant", content |-> "Done."]]>>]
    [] kind = "empty" ->
         [kind |-> "ok",
          choices |-> <<[message |-> [role |-> "assistant", content |-> "", tool_calls |-> <<>>]]>>]
    [] kind = "calls" ->
         [kind |-> "ok",
          choices |-> <<[message |-> [role |-> "assistant", content |-> "Done.",
                                      tool_calls |-> [k \in 1..Len(picks) |-> RawCall(k, picks[k])]]]>>]

PickLists == UNION {[1..n -> 1..Len(ToolCallMenu)] : n \in 1..MaxCalls}

\* the request bodies: <<body text>>
ValidTaskJson ==
  JObj([id |-> Own, user_id |-> UserA, title |-> JText(T_milk), description |-> JNull,
        due_at |-> JNull, status |-> JText(S_pending), priority |-> JNull,
        category |-> JNull, tags |-> JNull, estimated_duration_minutes |-> JNull,
        notes |-> JNull, created_at |-> JIsoZ(0), updated_at |-> JIsoZ(0),
        last_reminder_sent |-> JNull])

BodyMenu ==
  << Json(JObj([message |-> JText(T_milk)])),
     Json(JObj([message |-> JText(T_milk),
                context |-> JObj([tasks |-> JArr(<<ValidTaskJson>>)])])),
     Json(EmptyObj),
     Json(JObj([message |-> JNum(5)])),
     Json(JObj([message |-> JText(<<>>)])),
     Json(JObj([message |-> JText(M_long)])),
     Json(JObj([message |-> JText(T_milk),
                context |-> JObj([tasks |-> JArr(<<JObj([id |-> JText(T_soy)])>>)])])),
     Malformed >>

\* the Authorization headers: none, another scheme, a bearer token
NoHeader == [scheme |-> "", rest |-> ""]
HeaderMenu ==
  << NoHeader,
     [scheme |-> "Basic ", rest |-> "tokA"],
     [scheme |-> "Bearer ", rest |-> "expired"],
     [scheme |-> "Bearer ", rest |-> "tokA"] >>

\* ------------------------------------------------------ the POST handler
VARIABLES
  tasks,        \* the tasks table
  nextId,       \* uuid_generate_v4(): the next id
  clock,        \* NOW() / new Date()
  requests,     \* requests received so far
  faults,       \* failures injected so far
  pc,           \* where the handler is
  request,      \* the request being handled
  supabase,     \* the client made for it: the token it sends
  aiResponse,   \* what processAIChat returned
  ix,           \* the position of the for..of loop in aiResponse.toolCalls
  toolResults,  \* the results pushed so far
  response,     \* the response returned
  storeCalls,   \* history: the store calls of this request, each with its invocation
  modelCalls,   \* history: the model calls of this request
  reply,        \* history: what the model call of this request met
  arrived,      \* history: the table as this request found it
  before,        \* history: the table as each invocation found it
  retry,        \* a run of retryAICall or retryEmailSend
  batch,        \* a run of batchSendEmails
  preferences,  \* the preferences table
  posts,        \* the net.http_post calls of send_email_reminders
  race          \* two requests, each at an update_task call on the same task

vars ==
  <<tasks, nextId, clock, requests, faults, pc, request, supabase, aiResponse, ix,
    toolResults, response, storeCalls, modelCalls, reply, arrived, before,
    retry, batch, preferences, posts, race>>

\* what the handler does not touch
others == <<retry, batch, preferences, posts, race>>

NoRequest == [body |-> Malformed, authorization |-> NoHeader]
NoResponse == [status |-> 0]
NoAiResponse == [message |-> ""]
NoReply == [kind |-> "none"]

InitialTable ==
  << [DefaultRow(1, 0) EXCEPT !.user_id = UserA, !.title = JText(T_milk), !.due_at = JTz(0)],
     [DefaultRow(2, 0) EXCEPT !.user_id = UserB, !.title = JText(T_soy)] >>

\* no request has arrived
HandlerIdle ==
  /\ tasks = InitialTable
  /\ nextId = 3
  /\ clock = 0
  /\ requests = 0
  /\ faults = 0
  /\ pc = "idle"
  /\ request = NoRequest
  /\ supabase = ""
  /\ aiResponse = NoAiResponse
  /\ ix = 1
  /\ toolResults = <<>>
  /\ response = NoResponse
  /\ storeCalls = <<>>
  /\ modelCalls = 0
  /\ reply = NoReply
  /\ arrived = InitialTable
  /\ before = <<>>

\* nothing else runs
OthersIdle ==
  /\ retry = [pc |-> "idle"]
  /\ batch = [pc |-> "idle"]
  /\ preferences = <<>>
  /\ posts = <<>>
  /\ race = <<>>

Init == HandlerIdle /\ OthersIdle

FaultChoices == IF faults < MaxFaults THEN {FALSE, TRUE} ELSE {FALSE}

\* error.message.includes('validation'): a ZodError's message is the JSON of its
\* issues, and only an invalid_string issue has a "validation" key; no message
\* text the handler can meet contains the word
IncludesValidation(error) ==
  IF error.kind = "issues"
  THEN \E k \in 1..Len(error.issues) : error.issues[k].code = "invalid_string"
  ELSE FALSE

\* mutant: the catch block answers every error as a bad request
CatchResponseBadRequest(error) ==
  [status |-> 400, body |-> [error |-> "Invalid request format", details |-> error]]

\* the catch block of POST
CatchResponse(error) ==
  IF IncludesValidation(error)
  THEN [status |-> 400, body |-> [error |-> "Invalid request format", details |-> error]]
  ELSE [status |-> 500, body |-> [error |-> "Internal server error"]]

Unauthorized(text) == [status |-> 401, body |-> [error |-> text]]

\* a request arrives, some time after the one before it was answered: the
\* handler keeps nothing of that one
Receive ==
  /\ pc \in {"idle", "done"}
  /\ requests < MaxRequests
  /\ clock' \in clock..MaxClock
  /\ \E b \in 1..Len(BodyMenu), h \in 1..Len(HeaderMenu) :
       request' = [body |-> BodyMenu[b], authorization |-> HeaderMenu[h]]
  /\ requests' = requests + 1
  /\ pc' = "body"
  /\ supabase' = ""
  /\ aiResponse' = NoAiResponse
  /\ ix' = 1
  /\ toolResults' = <<>>
  /\ response' = NoResponse
  /\ storeCalls' = <<>>
  /\ modelCalls' = 0
  /\ reply' = NoReply
  /\ arrived' = tasks
  /\ before' = <<>>
  /\ UNCHANGED others
  /\ UNCHANGED <<tasks, nextId, faults>>

\* request.json() and validateChatRequest(body)
ParseBody ==
  /\ pc = "body"
  /\ LET v == validateChatRequest(request.body.value)
     IN IF ~request.body.wellFormed
        THEN /\ response' = CatchResponse(Text("Unexpected token in JSON", ""))
             /\ pc' = "done"
        ELSE IF ~v.ok
        THEN /\ response' = CatchResponse(v.error)
             /\ pc' = "done"
        ELSE /\ response' = response
             /\ pc' = "header"
  /\ UNCHANGED others
  /\ UNCHANGED <<tasks, nextId, clock, requests, faults, request, supabase, aiResponse, ix,
                 toolResults, storeCalls, modelCalls, reply, arrived, before>>

\* the Authorization header and createClient with the token
CheckHeader ==
  /\ pc = "header"
  /\ IF request.authorization.scheme # "Bearer "
     THEN /\ response' = Unauthorized("Missing or invalid authorization header")
          /\ pc' = "done"
          /\ supabase' = supabase
     ELSE /\ response' = response
          /\ pc' = "user"
          /\ supabase' = request.authorization.rest
  /\ UNCHANGED others
  /\ UNCHANGED <<tasks, nextId, clock, requests, faults, request, aiResponse, ix,
                 toolResults, storeCalls, modelCalls, reply, arrived, before>>

\* supabase.auth.getUser()
VerifyUser ==
  /\ pc = "user"
  /\ \E fault \in FaultChoices :
       /\ fault => SessionUser(supabase) # NoUser
       /\ faults' = faults + (IF fault THEN 1 ELSE 0)
       /\ IF GetUser(supabase, fault).error
          THEN /\ response' = Unauthorized("Invalid or expired token")
               /\ pc' = "done"
          ELSE /\ response' = response
               /\ pc' = "context"
  /\ UNCHANGED others
  /\ UNCHANGED <<tasks, nextId, clock, requests, request, supabase, aiResponse, ix,
                 toolResults, storeCalls, modelCalls, reply, arrived, before>>

\* const tasks = await listTasks(supabase)
FetchContext ==
  /\ pc = "context"
  /\ \E fault \in FaultChoices :
       LET r == listTasks(tasks, supabase, Undefined, fault)
       IN /\ faults' = faults + (IF fault THEN 1 ELSE 0)
          /\ storeCalls' = storeCalls \o Tagged(0, r.calls)
          /\ IF r.threw
             THEN /\ response' = CatchResponse(r.error)
                  /\ pc' = "done"
             ELSE /\ response' = response
                  /\ pc' = "chat"
  /\ UNCHANGED others
  /\ UNCHANGED <<tasks, nextId, clock, requests, request, supabase, aiResponse, ix,
                 toolResults, modelCalls, reply, arrived, before>>

\* const aiResponse = await processAIChat({message}, tasks)
CallModel ==
  /\ pc = "chat"
  /\ \E kind \in ReplyKinds :
       \E picks \in (IF kind = "calls" THEN PickLists ELSE {<<>>}) :
         /\ reply' = Reply(kind, picks)
         /\ aiResponse' = processAIChat(Reply(kind, picks))
  /\ modelCalls' = modelCalls + 1
  /\ pc' = "tools"
  /\ UNCHANGED others
  /\ UNCHANGED <<tasks, nextId, clock, requests, faults, request, supabase, ix,
                 toolResults, response, storeCalls, arrived, before>>

\* ------------------------------------------- the list_tasks post-filters
DayTicks == 2   \* clock ticks in one calendar day

Truthy(x) ==
  CASE x.t \in {"undefined", "null"} -> FALSE
    [] x.t = "string" -> StrLen(x) > 0
    [] x.t = "number" -> x.v # 0
    [] OTHER -> TRUE

\* new Date(y, m, d): the start of the day of `now`
StartOfDay(now) == now - (now % DayTicks)

DueToday(task, now) ==
  IF ~Truthy(task.due_at) THEN FALSE
  ELSE task.due_at.v >= StartOfDay(now) /\ task.due_at.v < StartOfDay(now) + DayTicks

\* mutant: the overdue filter does not look at the status
OverdueIgnoringDone(task, now) ==
  IF ~Truthy(task.due_at) THEN FALSE
  ELSE task.due_at.v < now

Overdue(task, now) ==
  IF ~Truthy(task.due_at) \/ task.status = JText(S_done) THEN FALSE
  ELSE task.due_at.v < now

Upcoming(task, now) ==
  IF ~Truthy(task.due_at) \/ task.status = JText(S_done) THEN FALSE
  ELSE task.due_at.v > now

LowerOf ==
  [A |-> "a", B |-> "b", C |-> "c", D |-> "d", E |-> "e", F |-> "f", G |-> "g",
   H |-> "h", I |-> "i", J |-> "j", K |-> "k", L |-> "l", M |-> "m", N |-> "n",
   O |-> "o", P |-> "p", Q |-> "q", R |-> "r", S |-> "s", T |-> "t", U |-> "u",
   V |-> "v", W |-> "w", X |-> "x", Y |-> "y", Z |-> "z"]

\* String.prototype.toLowerCase, on the characters of a text
ToLowerCase(chars) ==
  [k \in 1..Len(chars) |-> IF chars[k] \in DOMAIN LowerOf THEN LowerOf[chars[k]] ELSE chars[k]]

\* String.prototype.includes
Includes(hay, needle) ==
  \E k \in 0..(Len(hay) - Len(needle)) : SubSeq(hay, k + 1, k + Len(needle)) = needle

\* mutant: the search looks at the title only
SearchMatchesTitleOnly(task, search) ==
  Includes(ToLowerCase(task.title.v), ToLowerCase(search.v))

SearchMatches(task, search) ==
  \/ Includes(ToLowerCase(task.title.v), ToLowerCase(search.v))
  \/ /\ Truthy(task.description)
     /\ Includes(ToLowerCase(task.description.v), ToLowerCase(search.v))

\* mutant: the status argument goes to the store as it came
ListCasePassingStatus(table, token, args, now, fault) ==
  listTasks(table, token, Get(args, "status"), fault)

\* the case 'list_tasks' of the switch, after the destructuring
ListCase(table, token, args, now, fault) ==
  LET status == Get(args, "status")
      search == Get(args, "search")
      due_filter == Get(args, "due_filter")
      option == IF Truthy(status) /\ (status = JText(S_pending) \/ status = JText(S_done))
                THEN status ELSE Undefined
      r == listTasks(table, token, option, fault)
      due == CASE due_filter = JText(S_today) ->
                    SelectSeq(r.value, LAMBDA task : DueToday(task, now))
               [] due_filter = JText(S_overdue) ->
                    SelectSeq(r.value, LAMBDA task : Overdue(task, now))
               [] due_filter = JText(S_upcoming) ->
                    SelectSeq(r.value, LAMBDA task : Upcoming(task, now))
               [] OTHER -> r.value
  IN IF r.threw THEN r
     ELSE IF ~Truthy(search) THEN Returned(due, r.table, r.calls)
     ELSE IF ~IsString(search) /\ Len(due) > 0
          THEN Threw(Text("search.toLowerCase is not a function", ""), r.table, r.calls)
     ELSE IF ~IsString(search) THEN Returned(due, r.table, r.calls)
     ELSE Returned(SelectSeq(due, LAMBDA task : SearchMatches(task, search)),
                   r.table, r.calls)

\* ------------------------------------------------ the loop over toolCalls
HasToolCalls == "toolCalls" \in DOMAIN aiResponse /\ Len(aiResponse.toolCalls) > 0
InLoop == pc = "tools" /\ HasToolCalls /\ ix <= Len(aiResponse.toolCalls)
ToolCall == aiResponse.toolCalls[ix]

Success(tool, data) == [tool |-> tool, success |-> TRUE, data |-> data]
\* mutant: the catch marks the result a success
FailureMarkedSuccess(tool, error) == [tool |-> tool, success |-> TRUE, error |-> error]
\* mutant: the catch drops the error message
FailureWithoutError(tool, error) == [tool |-> tool, success |-> FALSE]
\* the catch of the loop body: error.message
Failure(tool, error) == [tool |-> tool, success |-> FALSE, error |-> error]

Outcome(tool, r, data) == IF r.threw THEN Failure(tool, r.error) ELSE Success(tool, data)

\* one turn of the loop: what it leaves behind
Turn(r, result, fault) ==
  /\ tasks' = r.table
  /\ toolResults' = Append(toolResults, result)
  /\ storeCalls' = storeCalls \o Tagged(ix, r.calls)
  /\ before' = Append(before, tasks)
  /\ faults' = faults + (IF fault THEN 1 ELSE 0)
  /\ ix' = ix + 1
  /\ UNCHANGED others
  /\ UNCHANGED <<clock, requests, pc, request, supabase, aiResponse, response, modelCalls,
                 reply, arrived>>

CreateFaults == IF faults < MaxFaults THEN {"none", "auth", "store"} ELSE {"none"}

ExecCreate ==
  /\ InLoop
  /\ ToolCall.function = "create_task"
  /\ \E f \in CreateFaults :
       LET r == createTask(tasks, supabase, ToolCall.arguments, nextId, clock,
                           f = "auth", f = "store")
       IN /\ f # "none" => validateCreateTask(ToolCall.arguments).ok
          /\ nextId' = IF r.threw THEN nextId ELSE nextId + 1
          /\ Turn(r, Outcome("create_task", r, r.value), f # "none")

ExecUpdate ==
  /\ InLoop
  /\ ToolCall.function = "update_task"
  /\ \E fault \in FaultChoices :
       LET args == ToolCall.arguments
           task_id == Get(args, "task_id")
           updateData == JObj([k \in (DOMAIN args.v) \ {"task_id"} |-> args.v[k]])
           r == IF args.t = "null"
                THEN Threw(Text("Cannot destructure property 'task_id'", ""), tasks, <<>>)
                ELSE updateTask(tasks, supabase, task_id, updateData, clock, fault)
       IN /\ fault => Len(r.calls) > 0
          /\ nextId' = nextId
          /\ Turn(r, Outcome("update_task", r, r.value), fault)

ExecDelete ==
  /\ InLoop
  /\ ToolCall.function = "delete_task"
  /\ \E fault \in FaultChoices :
       LET args == ToolCall.arguments
           r == IF args.t = "null"
                THEN Threw(Text("Cannot read properties of null (reading 'task_id')", ""),
                           tasks, <<>>)
                ELSE deleteTask(tasks, supabase, Get(args, "task_id"), fault)
       IN /\ fault => Len(r.calls) > 0
          /\ nextId' = nextId
          /\ Turn(r, Outcome("delete_task", r, [deleted |-> TRUE]), fault)

ExecList ==
  /\ InLoop
  /\ ToolCall.function = "list_tasks"
  /\ \E fault \in FaultChoices :
       LET args == ToolCall.arguments
           r == IF args.t = "null"
                THEN Threw(Text("Cannot destructure property 'status'", ""), tasks, <<>>)
                ELSE ListCase(tasks, supabase, args, clock, fault)
       IN /\ fault => Len(r.calls) > 0
          /\ nextId' = nextId
          /\ Turn(r, Outcome("list_tasks", r, r.value), fault)

\* mutant: the switch has no case for list_tasks
CatalogNamesWithoutList == {"create_task", "update_task", "delete_task"}
CatalogNames == {"create_task", "update_task", "delete_task", "list_tasks"}

\* default: of the switch
ExecUnknown ==
  /\ InLoop
  /\ ToolCall.function \notin CatalogNames
  /\ nextId' = nextId
  /\ Turn(Returned(Undefined, tasks, <<>>),
          Failure(ToolCall.function, Text("Unknown function: ", ToolCall.function)),
          FALSE)

\* mutant: executedTools counts the invocations that succeeded
RespondToolsCountingSuccesses ==
  /\ pc = "tools"
  /\ HasToolCalls
  /\ ix > Len(aiResponse.toolCalls)
  /\ response' = [status |-> 200,
                  body |-> [response |-> aiResponse.message,
                            toolResults |-> toolResults,
                            executedTools |->
                              Cardinality({k \in 1..Len(toolResults) : toolResults[k].success})]]
  /\ pc' = "done"
  /\ UNCHANGED others
  /\ UNCHANGED <<tasks, nextId, clock, requests, faults, request, supabase, aiResponse, ix,
                 toolResults, storeCalls, modelCalls, reply, arrived, before>>

\* return NextResponse.json({response, toolResults, executedTools}) after the loop
RespondTools ==
  /\ pc = "tools"
  /\ HasToolCalls
  /\ ix > Len(aiResponse.toolCalls)
  /\ response' = [status |-> 200,
                  body |-> [response |-> aiResponse.message,
                            toolResults |-> toolResults,
                            executedTools |-> Len(aiResponse.toolCalls)]]
  /\ pc' = "done"
  /\ UNCHANGED others
  /\ UNCHANGED <<tasks, nextId, clock, requests, faults, request, supabase, aiResponse, ix,
                 toolResults, storeCalls, modelCalls, reply, arrived, before>>

\* the simple response when no tool was called
RespondPlain ==
  /\ pc = "tools"
  /\ ~HasToolCalls
  /\ response' = [status |-> 200,
                  body |-> [response |-> aiResponse.message,
                            toolResults |-> <<>>,
                            executedTools |-> 0]]
  /\ pc' = "done"
  /\ UNCHANGED others
  /\ UNCHANGED <<tasks, nextId, clock, requests, faults, request, supabase, aiResponse, ix,
                 toolResults, storeCalls, modelCalls, reply, arrived, before>>

Next ==
  \/ Receive
  \/ ParseBody
  \/ CheckHeader
  \/ VerifyUser
  \/ FetchContext
  \/ CallModel
  \/ ExecCreate
  \/ ExecUpdate
  \/ ExecDelete
  \/ ExecList
  \/ ExecUnknown
  \/ RespondTools
  \/ RespondPlain

Spec == Init /\ [][Next]_vars

\* --------------------------------------- list_tasks, as a function of its
\* inputs: the handler stands in its loop before a single list_tasks call,
\* for every table, arguments and time of a bounded set
MaxDays == 2   \* the clock of these runs covers 0..MaxDays * DayTicks - 1

\* tasks of user A as create_task and update_task can leave them
ListRowMenu ==
  << [DefaultRow(0, 0) EXCEPT !.user_id = UserA, !.title = JText(T_milk)],
     [DefaultRow(0, 0) EXCEPT !.user_id = UserA, !.title = JText(T_milk), !.due_at = JTz(0)],
     [DefaultRow(0, 0) EXCEPT !.user_id = UserA, !.title = JText(T_soy), !.due_at = JTz(1),
                              !.description = JText(T_milk)],
     [DefaultRow(0, 0) EXCEPT !.user_id = UserA, !.title = JText(T_soy), !.due_at = JTz(2),
                              !.status = JText(S_done)],
     [DefaultRow(0, 0) EXCEPT !.user_id = UserA, !.title = JText(T_milk), !.due_at = JTz(3),
                              !.description = JText(T_soy)],
     [DefaultRow(0, 0) EXCEPT !.user_id = UserA, !.title = JText(T_soy), !.due_at = JTz(1),
                              !.status = JText(S_done)] >>

ListTables ==
  {<<InitialTable[2],
     [ListRowMenu[i] EXCEPT !.id = JUuid(1)],
     [ListRowMenu[j] EXCEPT !.id = JUuid(3)]>> :
     i \in 1..Len(ListRowMenu), j \in 1..Len(ListRowMenu)}

\* the arguments of the list_tasks call
ListArgsMenu ==
  << EmptyObj,
     JObj([due_filter |-> JText(S_today)]),
     JObj([status |-> JText(S_pending), due_filter |-> JText(S_today)]),
     JObj([due_filter |-> JText(S_upcoming)]),
     JObj([search |-> JText(<<"M", "I", "L">>)]),
     JObj([status |-> JText(S_done), search |-> JText(<<"O", "y">>)]),
     JObj([due_filter |-> JText(S_today), search |-> JText(<<"m", "i">>)]),
     JObj([status |-> JText(S_pending), due_filter |-> JText(S_overdue),
           search |-> JText(T_soy)]),
     JObj([search |-> JText(T_long)]),
     JObj([status |-> JText(T_soy), due_filter |-> JText(S_upcoming)]),
     JObj([status |-> JNum(5), search |-> JText(T_soy)]),
     JObj([due_filter |-> JText(T_soy), status |-> JText(S_done)]),
     JObj([due_filter |-> JNum(5)]) >>

ListReply(args) ==
  [kind |-> "ok",
   choices |-> <<[message |->
     [role |-> "assistant", content |-> "Done.",
      tool_calls |-> <<[id |-> <<"call", 1>>, type |-> "function",
                        function |-> [name |-> "list_tasks", arguments |-> Json(args)]]>>]]>>]

ListInit ==
  \E table \in ListTables, a \in 1..Len(ListArgsMenu), now \in 0..(MaxDays * DayTicks - 1) :
    /\ tasks = table
    /\ nextId = 4
    /\ clock = now
    /\ requests = 1
    /\ faults = 0
    /\ pc = "tools"
    /\ request = [body |-> BodyMenu[1], authorization |-> HeaderMenu[4]]
    /\ supabase = HeaderMenu[4].rest
    /\ aiResponse = processAIChat(ListReply(ListArgsMenu[a]))
    /\ ix = 1
    /\ toolResults = <<>>
    /\ response = NoResponse
    /\ storeCalls = Tagged(0, listTasks(table, HeaderMenu[4].rest, Undefined, FALSE).calls)
    /\ modelCalls = 1
    /\ reply = ListReply(ListArgsMenu[a])
    /\ arrived = table
    /\ before = <<>>
    /\ OthersIdle

ListNext ==
  \/ ExecList
  \/ RespondTools

ListSpec == ListInit /\ [][ListNext]_vars

\* ------------------------------------- retryAICall and retryEmailSend
MaxMaxRetries == 4   \* maxRetries is 0..MaxMaxRetries
MaxBaseDelay == 2    \* baseDelay is 1..MaxBaseDelay


RECURSIVE Pow(_, _)
\* Math.pow, on naturals
Pow(base, exponent) == IF exponent = 0 THEN 1 ELSE base * Pow(base, exponent - 1)

\* mutant: the delay does not grow
DelayConstant(baseDelay, attempt) == baseDelay

\* const delay = baseDelay * Math.pow(2, attempt)
Delay(baseDelay, attempt) == baseDelay * Pow(2, attempt)

\* one turn of the for loop, or the throw after it; outcome is what calling
\* the wrapped function gives, if it is called
RetryIteration(r, outcome) ==
  IF ~(r.attempt < r.maxRetries)
  THEN [r EXCEPT !.pc = "threw", !.result = r.lastError]
  ELSE IF outcome.ok
  THEN [r EXCEPT !.calls = Append(r.calls, outcome), !.pc = "returned",
                 !.result = outcome.value]
  ELSE IF r.attempt = r.maxRetries - 1
  THEN [r EXCEPT !.calls = Append(r.calls, outcome), !.lastError = outcome.error,
                 !.pc = "threw", !.result = outcome.error]
  ELSE [r EXCEPT !.calls = Append(r.calls, outcome), !.lastError = outcome.error,
                 !.waits = Append(r.waits, Delay(r.baseDelay, r.attempt)),
                 !.attempt = r.attempt + 1]

\* what the k-th call of the wrapped function can give
FnOutcomes(k) ==
  {[ok |-> TRUE, value |-> <<"value", k>>]}
    \cup {[ok |-> FALSE, error |-> <<e, k>>] : e \in {"timeout", "rate limit"}}

RetryStep(name) ==
  /\ retry.pc = "loop"
  /\ retry.fn = name
  /\ \E outcome \in FnOutcomes(Len(retry.calls) + 1) :
       retry' = RetryIteration(retry, outcome)
  /\ UNCHANGED <<tasks, nextId, clock, requests, faults, pc, request, supabase, aiResponse,
                 ix, toolResults, response, storeCalls, modelCalls, reply, arrived, before,
                 batch, preferences, posts, race>>

retryAICall == RetryStep("retryAICall")
retryEmailSend == RetryStep("retryEmailSend")

RetryInit ==
  /\ HandlerIdle
  /\ batch = [pc |-> "idle"] /\ preferences = <<>> /\ posts = <<>> /\ race = <<>>
  /\ \E name \in {"retryAICall", "retryEmailSend"}, m \in 0..MaxMaxRetries,
        d \in 1..MaxBaseDelay :
       retry = [pc |-> "loop", fn |-> name, maxRetries |-> m, baseDelay |-> d,
                attempt |-> 0, lastError |-> Undefined, calls |-> <<>>, waits |-> <<>>,
                result |-> Undefined]

RetryNext ==
  \/ retryAICall
  \/ retryEmailSend

RetrySpec == RetryInit /\ [][RetryNext]_vars

\* ---------------------------------------------------- batchSendEmails
MaxEmails == 3      \* emails has 0..MaxEmails entries
MaxBatchSize == 3   \* batchSize is 1..MaxBatchSize

\* the emails of a batch: an address and the number of tasks to remind about
EmailMenu ==
  {[to |-> "a@x", tasks |-> 1], [to |-> "b@x", tasks |-> 1], [to |-> "b@x", tasks |-> 0]}

\* what resend.emails.send can do: resolve with data, resolve with an error,
\* or reject
SendOutcomes == {"data", "error", "reject"}

\* sendTaskReminder: every failure, thrown ones included, is returned
sendTaskReminder(email, k, outcome) ==
  IF email.tasks = 0 THEN [success |-> FALSE, error |-> "No tasks to remind about"]
  ELSE IF outcome = "error" THEN [success |-> FALSE, error |-> "resend error"]
  ELSE IF outcome = "reject" THEN [success |-> FALSE, error |-> "thrown"]
  ELSE [success |-> TRUE, messageId |-> <<"message", k>>]

\* Array.prototype.slice(start, end)
Slice(array, start, end) ==
  SubSeq(array, start + 1, IF end < Len(array) THEN end ELSE Len(array))

\* the map over the batch, Promise.allSettled and the forEach that pushes:
\* sendTaskReminder never rejects, so every promise is fulfilled
BatchResults(b, outcomes) ==
  LET slice == Slice(b.emails, b.i, b.i + b.batchSize)
  IN [j \in 1..Len(slice) |->
        [to |-> slice[j].to,
         result |-> sendTaskReminder(slice[j], b.i + j, outcomes[j])]]

\* mutant: a batch with a failure ends the run, as Promise.all would
BatchRoundStoppingOnFailure(b, outcomes) ==
  LET pushed == BatchResults(b, outcomes)
      slice == Slice(b.emails, b.i, b.i + b.batchSize)
  IN IF ~(b.i < Len(b.emails)) THEN [b EXCEPT !.pc = "returned"]
     ELSE IF \E j \in 1..Len(pushed) : ~pushed[j].result.success
     THEN [b EXCEPT !.pc = "returned",
                    !.sends = b.sends \o [j \in 1..Len(slice) |-> b.i + j],
                    !.outcomes = b.outcomes \o outcomes]
     ELSE [b EXCEPT !.results = b.results \o pushed,
                    !.sends = b.sends \o [j \in 1..Len(slice) |-> b.i + j],
                    !.outcomes = b.outcomes \o outcomes,
                    !.i = b.i + b.batchSize]

\* one turn of the for loop, or the return after it
BatchRound(b, outcomes) ==
  LET pushed == BatchResults(b, outcomes)
      slice == Slice(b.emails, b.i, b.i + b.batchSize)
  IN IF ~(b.i < Len(b.emails)) THEN [b EXCEPT !.pc = "returned"]
     ELSE [b EXCEPT !.results = b.results \o pushed,
                    !.sends = b.sends \o [j \in 1..Len(slice) |-> b.i + j],
                    !.outcomes = b.outcomes \o outcomes,
                    !.delays = b.delays + (IF b.i + b.batchSize < Len(b.emails) THEN 1 ELSE 0),
                    !.i = b.i + b.batchSize]

batchSendEmails ==
  /\ batch.pc = "loop"
  /\ \E outcomes \in [1..Len(Slice(batch.emails, batch.i, batch.i + batch.batchSize))
                         -> SendOutcomes] :
       batch' = BatchRound(batch, outcomes)
  /\ UNCHANGED <<tasks, nextId, clock, requests, faults, pc, request, supabase, aiResponse,
                 ix, toolResults, response, storeCalls, modelCalls, reply, arrived, before,
                 retry, preferences, posts, race>>

BatchInit ==
  /\ HandlerIdle
  /\ retry = [pc |-> "idle"] /\ preferences = <<>> /\ posts = <<>> /\ race = <<>>
  /\ \E n \in 0..MaxEmails, size \in 1..MaxBatchSize :
       \E emails \in [1..n -> EmailMenu] :
         batch = [pc |-> "loop", emails |-> emails, batchSize |-> size, i |-> 0,
                  results |-> <<>>, sends |-> <<>>, outcomes |-> <<>>, delays |-> 0]

BatchNext == batchSendEmails

\* the run goes on while it can: nothing it awaits waits for ever
BatchSpec == BatchInit /\ [][BatchNext]_vars /\ WF_vars(BatchNext)

\* ------------------------ two requests at update_task on the same task
\* Each request validates on its own and sends one UPDATE statement; the
\* store applies the statements one at a time, in either order.
RaceArgsMenu ==
  << JObj([title |-> JText(T_soy)]),
     JObj([title |-> JText(<<"t", "e", "a">>), status |-> JText(S_done)]),
     JObj([status |-> JText(S_pending), description |-> JText(T_soy)]),
     JObj([due_at |-> JIsoZ(1)]),
     JObj([description |-> JText(T_milk), due_at |-> JLocal(0)]) >>

\* await updateTask(supabase, task_id, validatedData) of request p: the
\* store applies its statement
RaceUpdate(p) ==
  /\ race.proc[p].pc = "call"
  /\ \E now \in clock..MaxClock :
       LET r == updateTask(tasks, HeaderMenu[4].rest, Own, race.proc[p].input, now, FALSE)
       IN /\ clock' = now
          /\ tasks' = r.table
          /\ race' = [race EXCEPT !.proc[p].pc = "push", !.proc[p].r = r,
                                   !.applied = Append(race.applied, p)]
  /\ UNCHANGED <<nextId, requests, faults, pc, request, supabase, aiResponse,
                 ix, toolResults, response, storeCalls, modelCalls, reply, arrived, before,
                 retry, batch, preferences, posts>>

\* toolResults.push of request p
RacePush(p) ==
  /\ race.proc[p].pc = "push"
  /\ race' = [race EXCEPT !.proc[p].pc = "done",
                           !.proc[p].result =
                             Outcome("update_task", race.proc[p].r, race.proc[p].r.value)]
  /\ UNCHANGED <<tasks, nextId, clock, requests, faults, pc, request, supabase, aiResponse,
                 ix, toolResults, response, storeCalls, modelCalls, reply, arrived, before,
                 retry, batch, preferences, posts>>

RaceInit ==
  /\ HandlerIdle
  /\ retry = [pc |-> "idle"] /\ batch = [pc |-> "idle"]
  /\ preferences = <<>> /\ posts = <<>>
  /\ \E a, b \in 1..Len(RaceArgsMenu) :
       race = [proc |-> [p \in 1..2 |->
                 [input |-> RaceArgsMenu[IF p = 1 THEN a ELSE b], pc |-> "call",
                  r |-> Undefined, result |-> Undefined]],
               applied |-> <<>>]

RaceNext ==
  \/ \E p \in 1..2 : RaceUpdate(p)
  \/ \E p \in 1..2 : RacePush(p)

RaceSpec == RaceInit /\ [][RaceNext]_vars

\* ------------------------------------ the job send_email_reminders
\* Times are clock ticks; lead_time_min is held in ticks too.
HourTicks == 2     \* INTERVAL '1 hour'
MaxJobClock == 5   \* the clock of these runs stops here
MaxLead == 1       \* lead_time_min is 0..MaxLead

\* mutant: a reminder exactly one hour old does not hold the next one back
NeedsReminderAtTheHour(t, p, now) ==
  /\ t.user_id = p.user_id
  /\ t.status = JText(S_pending)
  /\ t.due_at # JNull
  /\ p.reminder_on
  /\ t.due_at.v <= now + p.lead_time_min
  /\ \/ t.last_reminder_sent = JNull
     \/ t.last_reminder_sent.v <= now - HourTicks

\* the ON and WHERE conditions of the query, for a task and a preferences row
NeedsReminder(t, p, now) ==
  /\ t.user_id = p.user_id
  /\ t.status = JText(S_pending)
  /\ t.due_at # JNull
  /\ p.reminder_on
  /\ t.due_at.v <= now + p.lead_time_min
  /\ \/ t.last_reminder_sent = JNull
     \/ t.last_reminder_sent.v < now - HourTicks

\* one run of the function, a single transaction: NOW() is its start; the
\* UPDATE fires the updated_at trigger
send_email_reminders ==
  LET due == {i \in 1..Len(tasks) :
                \E k \in 1..Len(preferences) : NeedsReminder(tasks[i], preferences[k], clock)}
      found == SelectSeq([i \in 1..Len(tasks) |-> i], LAMBDA i : i \in due)
  IN /\ posts' = posts \o [j \in 1..Len(found) |->
                              [task_id |-> tasks[found[j]].id, at |-> clock]]
     /\ tasks' = [i \in 1..Len(tasks) |->
                    IF i \in due
                    THEN [tasks[i] EXCEPT !.last_reminder_sent = JTz(clock),
                                          !.updated_at = JTz(clock)]
                    ELSE tasks[i]]
     /\ UNCHANGED <<nextId, clock, requests, faults, pc, request, supabase, aiResponse,
                    ix, toolResults, response, storeCalls, modelCalls, reply, arrived,
                    before, retry, batch, preferences, race>>

\* time passes between runs
JobTick ==
  /\ clock < MaxJobClock
  /\ clock' = clock + 1
  /\ UNCHANGED <<tasks, nextId, requests, faults, pc, request, supabase, aiResponse,
                 ix, toolResults, response, storeCalls, modelCalls, reply, arrived, before,
                 retry, batch, preferences, posts, race>>

\* between runs user A updates the task through update_task
JobUserUpdate ==
  /\ \E input \in {JObj([status |-> JText(S_done)]), JObj([status |-> JText(S_pending)]),
                    JObj([due_at |-> JIsoZ(2)])} :
       LET r == updateTask(tasks, HeaderMenu[4].rest, Own, input, clock, FALSE)
       IN tasks' = r.table
  /\ UNCHANGED <<nextId, clock, requests, faults, pc, request, supabase, aiResponse,
                 ix, toolResults, response, storeCalls, modelCalls, reply, arrived, before,
                 retry, batch, preferences, posts, race>>

JobInit ==
  /\ \E dueA \in {JNull, JTz(1), JTz(4)}, dueB \in {JTz(0), JTz(2)},
        statusA \in {JText(S_pending), JText(S_done)} :
       tasks = << [InitialTable[1] EXCEPT !.due_at = dueA, !.status = statusA],
                  [InitialTable[2] EXCEPT !.due_at = dueB] >>
  /\ \E on \in BOOLEAN, lead \in 0..MaxLead, rows \in 1..2 :
       preferences =
         SubSeq(<< [user_id |-> UserA, reminder_on |-> on, lead_time_min |-> lead],
                   [user_id |-> UserB, reminder_on |-> TRUE, lead_time_min |-> 0] >>,
                1, rows)
  /\ nextId = 3 /\ clock = 0 /\ requests = 0 /\ faults = 0 /\ pc = "idle"
  /\ request = NoRequest /\ supabase = "" /\ aiResponse = NoAiResponse /\ ix = 1
  /\ toolResults = <<>> /\ response = NoResponse /\ storeCalls = <<>>
  /\ modelCalls = 0 /\ reply = NoReply /\ arrived = InitialTable /\ before = <<>>
  /\ retry = [pc |-> "idle"] /\ batch = [pc |-> "idle"]
  /\ posts = <<>> /\ race = <<>>

JobNext ==
  \/ send_email_reminders
  \/ JobTick
  \/ JobUserUpdate

JobSpec == JobInit /\ [][JobNext]_vars

\* ================================================================ claims
Done == pc = "done"
Results == response.body.toolResults
Invocations == aiResponse.toolCalls
Executor == Done /\ HasToolCalls

\* the store calls invocation n made, and the table it left
StoreCallsOf(n) == {k \in 1..Len(storeCalls) : storeCalls[k].call = n}
TableAfter(n) == IF n < Len(before) THEN before[n + 1] ELSE tasks

StoreAccepted(n) == \E k \in StoreCallsOf(n) : storeCalls[k].code = ""
StoreRefused(n) == \E k \in StoreCallsOf(n) : storeCalls[k].code # ""

WithoutTaskId(args) == JObj([k \in (DOMAIN args.v) \ {"task_id"} |-> args.v[k]])

\* the arguments of a call break the shape its operation declares
ShapeViolated(call) ==
  CASE call.function = "create_task" -> ~validateCreateTask(call.arguments).ok
    [] call.function = "update_task" ->
         \/ ~IsString(Get(call.arguments, "task_id"))
         \/ ~validateUpdateTask(WithoutTaskId(call.arguments)).ok
    [] call.function = "delete_task" -> ~IsString(Get(call.arguments, "task_id"))
    [] call.function = "list_tasks" ->
         \/ Len(Optional(Get(call.arguments, "status"),
                         ZEnum(Get(call.arguments, "status"), TaskStatus, "status"))) > 0
         \/ Len(Optional(Get(call.arguments, "due_filter"),
                         ZEnum(Get(call.arguments, "due_filter"),
                               {S_today, S_overdue, S_upcoming}, "due_filter"))) > 0
         \/ Len(Optional(Get(call.arguments, "search"),
                         ZString(Get(call.arguments, "search"), "search"))) > 0
    [] OTHER -> FALSE

\* C1: a request that reaches the executor with N >= 1 invocations is answered
\* with exactly N results; result i names invocation i's operation, is marked
\* success exactly when a store call of invocation i was accepted, and the list
\* and delete invocations reach the store whatever failed before them.
C1_OneResultPerInvocation ==
  Executor =>
    /\ response.status = 200
    /\ Len(Results) = Len(Invocations)
    /\ \A n \in 1..Len(Invocations) :
         /\ n <= Len(Results)
         /\ Results[n].tool = Invocations[n].function
         /\ Results[n].success <=> StoreAccepted(n)
         /\ Invocations[n].function \in {"list_tasks", "delete_task"} => StoreCallsOf(n) # {}
         /\ (Invocations[n].function = "create_task" /\ Results[n].success)
              => Results[n].data.title = Get(Invocations[n].arguments, "title")

C1_Witness ==
  /\ Executor
  /\ Len(Invocations) = 2
  /\ ~Results[1].success
  /\ Results[2].success
  /\ StoreCallsOf(2) # {}

\* C2: an invocation whose arguments break the declared shape gets a failure
\* result carrying the validation error, and makes no store call.
C2_BadArgumentsNeverReachStore ==
  Executor =>
    \A n \in 1..Len(Invocations) :
      ShapeViolated(Invocations[n]) =>
        /\ ~Results[n].success
        /\ Results[n].error.kind = "issues"
        /\ StoreCallsOf(n) = {}

\* C3: a result is the failure "Unknown function: <name>" exactly when the name
\* is none of the four catalog names; such an invocation makes no store call and
\* leaves the table as it found it.
C3_UnknownOperationRejected ==
  Executor =>
    \A n \in 1..Len(Invocations) :
      LET unknown == Invocations[n].function
                       \notin {"create_task", "update_task", "delete_task", "list_tasks"}
          rejected == /\ ~Results[n].success
                      /\ Results[n].error.kind = "text"
                      /\ Results[n].error.head = "Unknown function: "
                      /\ Results[n].error.tail = Invocations[n].function
      IN /\ rejected <=> unknown
         /\ unknown => StoreCallsOf(n) = {} /\ TableAfter(n) = before[n]

C3_Witness ==
  /\ Executor
  /\ Len(Invocations) = 2
  /\ Invocations[1].function = "archive_task"
  /\ Invocations[2].function = "delete_task"
  /\ ~Results[1].success
  /\ Results[2].success
  /\ tasks # arrived

\* the credentials of the request are missing, of another scheme, or a token
\* the identity provider rejects
BadCredentials ==
  \/ request.authorization.scheme # "Bearer "
  \/ SessionUser(request.authorization.rest) = NoUser

BodyAccepted ==
  request.body.wellFormed /\ validateChatRequest(request.body.value).ok

\* C4: every request with bad credentials is answered 401, with no
\* store call and no model call.
C4_BadCredentialsAlways401 ==
  (Done /\ BadCredentials) =>
    response.status = 401 /\ storeCalls = <<>> /\ modelCalls = 0

\* C4, given the order of the handler's checks: a request with bad credentials
\* makes no store call and no model call, leaves the table alone and is never
\* answered 200; it is answered 401 when its body passes the chat-request
\* validation, which the handler runs before it looks at the header.
C4_BadCredentialsNoAccess ==
  (Done /\ BadCredentials) =>
    /\ storeCalls = <<>>
    /\ modelCalls = 0
    /\ tasks = arrived
    /\ response.status # 200
    /\ BodyAccepted => response.status = 401

C4_Witness ==
  /\ Done
  /\ request.authorization.scheme = "Bearer "
  /\ SessionUser(request.authorization.rest) = NoUser
  /\ BodyAccepted
  /\ response.status = 401

\* the message of the body is missing, no string, empty or too long
MessageRejected ==
  /\ request.body.wellFormed
  /\ request.body.value.t = "object"
  /\ LET m == Get(request.body.value, "message")
     IN ~IsString(m) \/ StrLen(m) = 0 \/ StrLen(m) > 2000

\* C5: a body that fails the chat-request validation is answered 400 with
\* {error}, never 200 or 500.
C5_InvalidBodyAnswered400 ==
  (Done /\ MessageRejected) =>
    response.status = 400 /\ "error" \in DOMAIN response.body

ModelFailed ==
  \/ reply.kind \in {"network", "status"}
  \/ reply.kind = "ok" /\ Len(reply.choices) = 0

\* C6: when the model call fails, the response is 200 with the fixed fallback
\* text, no results, executedTools 0, and the table is as the request found it.
C6_ModelFailureDegrades ==
  (Done /\ ModelFailed) =>
    /\ response.status = 200
    /\ response.body.response
         = "I apologize, but I encountered an error processing your request. Please try again."
    /\ response.body.toolResults = <<>>
    /\ response.body.executedTools = 0
    /\ tasks = arrived

C6_Witness ==
  /\ Done
  /\ reply.kind = "status"
  /\ response.status = 200
  /\ modelCalls = 1

\* invocation n failed: its name is unknown, its arguments were rejected by the
\* validation of its helper, or the store refused its call
ArgumentsRejected(n) ==
  \/ /\ Invocations[n].function = "create_task"
     /\ ~validateCreateTask(Invocations[n].arguments).ok
  \/ /\ Invocations[n].function = "update_task"
     /\ ~validateUpdateTask(WithoutTaskId(Invocations[n].arguments)).ok

InvocationFailed(n) ==
  \/ Invocations[n].function \notin {"create_task", "update_task", "delete_task", "list_tasks"}
  \/ ArgumentsRejected(n)
  \/ StoreRefused(n)

\* C7: every failure of an invocation is a result with success = false and an
\* error, and the response status stays 200.
C7_FailuresFoldedInto200 ==
  Executor =>
    /\ response.status = 200
    /\ \A n \in 1..Len(Invocations) :
         InvocationFailed(n) =>
           /\ n <= Len(Results)
           /\ ~Results[n].success
           /\ "error" \in DOMAIN Results[n]
           /\ "data" \notin DOMAIN Results[n]

C7_Witness ==
  /\ Executor
  /\ Len(Invocations) = 2
  /\ StoreRefused(1)
  /\ ArgumentsRejected(2)
  /\ response.status = 200

\* the tool calls of the model's reply, and those processAIChat can hand on:
\* all of them when every arguments text is well formed, none otherwise
ProposedCalls ==
  IF reply.kind = "ok" /\ Len(reply.choices) > 0
     /\ "tool_calls" \in DOMAIN reply.choices[1].message
  THEN reply.choices[1].message.tool_calls
  ELSE <<>>

ParsedCount ==
  IF \A k \in 1..Len(ProposedCalls) : ProposedCalls[k].function.arguments.wellFormed
  THEN Len(ProposedCalls)
  ELSE 0

\* C8: in every 200 response executedTools is the number of invocations the
\* model proposed, that is the tool calls processAIChat parsed from its reply
\* (all of them, and none when the reply has none or cannot be parsed), counted
\* whether they succeeded or not, and it is the length of toolResults; with no
\* proposed invocation executedTools is 0 and toolResults is empty.
C8_ExecutedToolsCountsParsed ==
  (Done /\ response.status = 200) =>
    /\ response.body.executedTools = ParsedCount
    /\ response.body.executedTools = (IF HasToolCalls THEN Len(Invocations) ELSE 0)
    /\ response.body.executedTools = Len(response.body.toolResults)
    /\ Len(ProposedCalls) = 0 =>
         response.body.executedTools = 0 /\ response.body.toolResults = <<>>

C8_Witness ==
  /\ Done
  /\ response.status = 200
  /\ response.body.executedTools = 2
  /\ ~response.body.toolResults[1].success
  /\ ~response.body.toolResults[2].success

\* the value a listed task shows for a supplied argument: a due date is the
\* same when it is the same instant
SameValue(k, listed, supplied) ==
  IF k = "due_at" /\ IsString(supplied) /\ IsString(listed)
  THEN listed.v = supplied.v
  ELSE listed = supplied

\* C9: a successful create_task followed at once by list_tasks with no filter
\* lists the created task, with every supplied field at its supplied value.
C9_CreateThenListRoundTrip ==
  Executor =>
    \A n \in 1..(Len(Invocations) - 1) :
      ( /\ Invocations[n].function = "create_task"
        /\ Results[n].success
        /\ Invocations[n + 1].function = "list_tasks"
        /\ Invocations[n + 1].arguments = EmptyObj
        /\ Results[n + 1].success )
      => \E j \in 1..Len(Results[n + 1].data) :
           /\ Results[n + 1].data[j].id = Results[n].data.id
           /\ \A k \in (DOMAIN Invocations[n].arguments.v) \cap CreateTaskKeys :
                SameValue(k, Results[n + 1].data[j][k], Invocations[n].arguments.v[k])

OptionalColumns ==
  {"description", "due_at", "priority", "category", "tags",
   "estimated_duration_minutes", "notes", "last_reminder_sent"}

Caller == SessionUser(request.authorization.rest)

\* invocation n is a list_tasks that succeeded, with this due_filter and no search
ListedBy(n, filter) ==
  /\ Invocations[n].function = "list_tasks"
  /\ Get(Invocations[n].arguments, "due_filter") = filter
  /\ Get(Invocations[n].arguments, "search") = Undefined
  /\ Results[n].success

\* the row passes the status filter of the arguments, if they have one
PassesStatus(row, args) ==
  Get(args, "status") \in {JText(S_pending), JText(S_done)} => row.status = Get(args, "status")

\* the rows invocation n found that are the caller's, pass its status filter,
\* have a due date strictly before the current time, and are not done
OverdueExpected(n) ==
  {i \in 1..Len(before[n]) :
     /\ before[n][i].user_id = Caller
     /\ PassesStatus(before[n][i], Invocations[n].arguments)
     /\ before[n][i].due_at # JNull
     /\ before[n][i].due_at.v < clock
     /\ before[n][i].status # JText(S_done)}

\* C11: list_tasks with due_filter overdue returns exactly the caller's tasks,
\* among those passing the status filter, whose due date is set and strictly
\* before the current time and whose status is not done.
C11_OverdueIsExact ==
  Executor =>
    \A n \in 1..Len(Invocations) :
      ListedBy(n, JText(S_overdue)) =>
        /\ {Results[n].data[j] : j \in 1..Len(Results[n].data)}
             = {before[n][i] : i \in OverdueExpected(n)}
        /\ Len(Results[n].data) = Cardinality(OverdueExpected(n))

C11_Witness ==
  /\ Executor
  /\ \E n \in 1..Len(Invocations) :
       /\ ListedBy(n, JText(S_overdue))
       /\ Get(Invocations[n].arguments, "status") = Undefined
       /\ Len(Results[n].data) = 1
       /\ \E i \in 1..Len(before[n]) :
            before[n][i].user_id = Caller /\ before[n][i].due_at = JNull
       /\ \E i \in 1..Len(before[n]) :
            /\ before[n][i].user_id = Caller
            /\ before[n][i].due_at # JNull
            /\ before[n][i].due_at.v = clock

\* the rows of the caller with this id in the table invocation n found
OwnRowsWith(n, taskId) ==
  {i \in 1..Len(before[n]) : before[n][i].user_id = Caller /\ before[n][i].id = taskId}

\* invocation n is an update_task with acceptable data that names a task id
\* none of the caller's tasks has, and the store was reached
UpdateOfMissing(n) ==
  /\ Invocations[n].function = "update_task"
  /\ IsUuid(Get(Invocations[n].arguments, "task_id"))
  /\ validateUpdateTask(WithoutTaskId(Invocations[n].arguments)).ok
  /\ OwnRowsWith(n, Get(Invocations[n].arguments, "task_id")) = {}
  /\ \A k \in StoreCallsOf(n) : storeCalls[k].code # "fetch"

DeleteOfMissing(n) ==
  /\ Invocations[n].function = "delete_task"
  /\ IsUuid(Get(Invocations[n].arguments, "task_id"))
  /\ OwnRowsWith(n, Get(Invocations[n].arguments, "task_id")) = {}
  /\ \A k \in StoreCallsOf(n) : storeCalls[k].code # "fetch"

\* C13: delete_task naming a task id none of the caller's tasks has yields a
\* failure result with a not-found error, never a success.
C13_DeleteOfMissingNotFound ==
  Executor =>
    \A n \in 1..Len(Invocations) :
      DeleteOfMissing(n) =>
        /\ ~Results[n].success
        /\ "error" \in DOMAIN Results[n]

OwnedBy(table, user) == SelectSeq(table, LAMBDA r : r.user_id = user)

\* the tasks a result hands to the caller
TasksIn(result) ==
  IF ~result.success THEN {}
  ELSE CASE result.tool = "list_tasks" -> {result.data[j] : j \in 1..Len(result.data)}
         [] result.tool \in {"create_task", "update_task"} -> {result.data}
         [] OTHER -> {}

\* C14: whatever the requests made as user A invoke, with whatever task ids,
\* every task of user B is present and unchanged, and no result handed to A
\* contains a task of B.
C14_PerUserIsolation ==
  /\ OwnedBy(tasks, UserB) = OwnedBy(InitialTable, UserB)
  /\ \A n \in 1..Len(toolResults) :
       \A task \in TasksIn(toolResults[n]) : task.user_id # UserB

C14_Witness ==
  /\ Executor
  /\ Caller = UserA
  /\ Len(Invocations) = 2
  /\ Invocations[1].function = "delete_task"
  /\ Get(Invocations[1].arguments, "task_id") = Foreign
  /\ StoreAccepted(1)
  /\ Invocations[2].function = "list_tasks"
  /\ Results[2].success
  /\ Len(Results[2].data) > 0
  /\ Len(OwnedBy(tasks, UserB)) > 0

\* C15: every result, success or failure, carries the correlation id the model
\* gave the invocation that produced it.
C15_ResultsCarryCorrelationId ==
  Executor =>
    \A n \in 1..Len(Invocations) :
      /\ n <= Len(Results)
      /\ "id" \in DOMAIN Results[n]
      /\ Results[n].id = Invocations[n].id

\* C16: no step changes the owner of a task that exists, and a task that
\* appears is owned by the user whose request created it, whatever user_id the
\* arguments carry.
C16_OwnerImmutable ==
  [][\A j \in 1..Len(tasks') :
       IF \E i \in 1..Len(tasks) : tasks[i].id = tasks'[j].id
       THEN \A i \in 1..Len(tasks) :
              tasks[i].id = tasks'[j].id => tasks'[j].user_id = tasks[i].user_id
       ELSE tasks'[j].user_id = Caller]_vars

C16_Witness ==
  /\ Executor
  /\ \E n \in 1..Len(Invocations) :
       /\ Invocations[n].function = "update_task"
       /\ Get(Invocations[n].arguments, "user_id") = UserB
       /\ Results[n].success
       /\ Results[n].data.user_id = UserA
       /\ TableAfter(n) # before[n]

\* invocation n would create a task with, or change a title to, an empty or
\* over-long title
BadTitle(n) ==
  /\ Invocations[n].function \in {"create_task", "update_task"}
  /\ IsString(Get(Invocations[n].arguments, "title"))
  /\ \/ StrLen(Get(Invocations[n].arguments, "title")) = 0
     \/ StrLen(Get(Invocations[n].arguments, "title")) > 500

\* C17: every stored task has a title of 1 to 500 characters, and an invocation
\* that would store an empty or over-long title fails and leaves the table as
\* it found it.
C17_TitleInvariant ==
  /\ \A i \in 1..Len(tasks) :
       /\ IsString(tasks[i].title)
       /\ StrLen(tasks[i].title) >= 1
       /\ StrLen(tasks[i].title) <= 500
  /\ Executor =>
       \A n \in 1..Len(Invocations) :
         BadTitle(n) => ~Results[n].success /\ TableAfter(n) = before[n]

C17_Witness ==
  /\ Executor
  /\ Len(Invocations) = 2
  /\ BadTitle(1)
  /\ BadTitle(2)
  /\ Invocations[1].function = "create_task"
  /\ StrLen(Get(Invocations[1].arguments, "title")) > 500
  /\ Invocations[2].function = "update_task"
  /\ OwnRowsWith(2, Get(Invocations[2].arguments, "task_id")) # {}
  /\ ~Results[1].success
  /\ ~Results[2].success
  /\ Len(tasks) > Len(InitialTable)

\* C18: with a clock that never goes back, every stored task has
\* updated_at >= created_at, no step changes the created_at of a task that
\* exists, and no step lowers its updated_at.
C18_TimestampsMonotonic ==
  /\ [](\A i \in 1..Len(tasks) : tasks[i].updated_at.v >= tasks[i].created_at.v)
  /\ [][\A i \in 1..Len(tasks), j \in 1..Len(tasks') :
          tasks[i].id = tasks'[j].id =>
            /\ tasks'[j].created_at = tasks[i].created_at
            /\ tasks'[j].updated_at.v >= tasks[i].updated_at.v]_vars

C18_Witness ==
  /\ Executor
  /\ \E i \in 1..Len(tasks) : tasks[i].updated_at.v > tasks[i].created_at.v
  /\ \E i \in 1..Len(tasks) : tasks[i].created_at.v > 0
  /\ \E n \in 1..Len(Invocations) :
       /\ Invocations[n].function = "update_task"
       /\ Has(Invocations[n].arguments, "created_at")
       /\ Results[n].success

\* the model answered, and its reply has no tool call
RepliedWithoutCalls ==
  /\ reply.kind = "ok"
  /\ Len(reply.choices) > 0
  /\ Len(ProposedCalls) = 0

ReplyText == reply.choices[1].message.content

\* C19: when the reply has no tool calls, processAIChat returns no invocation
\* and the literal reply text as its message, for every reply text.
C19_MessageIsLiteralReplyText ==
  RepliedWithoutCalls =>
    /\ "toolCalls" \notin DOMAIN aiResponse
    /\ aiResponse.message = ReplyText

\* C19, with the default of the code: when the reply has no tool calls,
\* processAIChat returns no invocation; its message is the literal reply text
\* when that text is not empty, and the fixed sentence "I apologize, but I
\* couldn't process your request." when it is.
C19_MessageIsReplyTextOrDefault ==
  RepliedWithoutCalls =>
    /\ "toolCalls" \notin DOMAIN aiResponse
    /\ ReplyText # "" => aiResponse.message = ReplyText
    /\ ReplyText = "" =>
         aiResponse.message = "I apologize, but I couldn't process your request."

C19_Witness ==
  /\ Done
  /\ RepliedWithoutCalls
  /\ ReplyText # ""
  /\ response.status = 200
  /\ response.body.response = ReplyText
  /\ response.body.executedTools = 0

\* the mutable fields of a task an update_task bag carries
MutableFieldsIn(args) == (DOMAIN args.v) \cap UpdateTaskKeys

\* C20: a successful update_task changes, in the task it names, exactly the
\* mutable fields its arguments carry, to the values they carry, and updated_at,
\* to the current time; every other field of that task and every other task
\* is as it was.
C20_UpdateChangesExactlyItsFields ==
  Executor =>
    \A n \in 1..Len(Invocations) :
      (Invocations[n].function = "update_task" /\ Results[n].success) =>
        LET args == Invocations[n].arguments
            old == before[n]
            new == TableAfter(n)
        IN /\ Len(new) = Len(old)
           /\ \E i \in 1..Len(old) :
                /\ old[i].id = Get(args, "task_id")
                /\ new[i].id = old[i].id
                /\ Results[n].data = new[i]
                /\ \A k \in MutableFieldsIn(args) : SameValue(k, new[i][k], args.v[k])
                /\ new[i].updated_at = JTz(clock)
                /\ \A k \in (DOMAIN old[i]) \ (MutableFieldsIn(args) \cup {"updated_at"}) :
                     new[i][k] = old[i][k]
                /\ \A j \in 1..Len(old) : j # i => new[j] = old[j]

C20_Witness ==
  /\ Executor
  /\ Len(OwnedBy(tasks, UserA)) >= 2
  /\ \E n \in 1..Len(Invocations) :
       /\ Invocations[n].function = "update_task"
       /\ Results[n].success
       /\ {"description", "due_at"} \subseteq MutableFieldsIn(Invocations[n].arguments)
       /\ Results[n].data.description = JText(T_soy)
       /\ Results[n].data.updated_at.v > Results[n].data.created_at.v
       /\ \E i \in 1..Len(before[n]) :
            /\ before[n][i].id = Results[n].data.id
            /\ before[n][i].description = JNull

\* the terminal states of invocation n, from what it was asked and what it did
RejectedUnknown(n) ==
  /\ aiResponse.toolCalls[n].function
       \notin {"create_task", "update_task", "delete_task", "list_tasks"}
  /\ ~toolResults[n].success
  /\ StoreCallsOf(n) = {}

RejectedBadArgs(n) ==
  /\ ArgumentsRejected(n)
  /\ ~toolResults[n].success
  /\ StoreCallsOf(n) = {}

AppliedSuccess(n) ==
  /\ toolResults[n].success
  /\ Cardinality(StoreCallsOf(n)) = 1
  /\ StoreAccepted(n)

AppliedStoreError(n) ==
  /\ aiResponse.toolCalls[n].function
       \in {"create_task", "update_task", "delete_task", "list_tasks"}
  /\ ~ArgumentsRejected(n)
  /\ ~toolResults[n].success
  /\ \/ Cardinality(StoreCallsOf(n)) = 1 /\ StoreRefused(n)
     \/ /\ StoreCallsOf(n) = {}
        /\ toolResults[n].error = Text("User must be authenticated to create tasks", "")

\* C21: every invocation that was executed is in exactly one of the four
\* terminal states and made at most one store call; no step of the request
\* takes a result back or adds a store call to an invocation that has its
\* result, so nothing is executed twice and nothing is retried.
C21_InvocationsTerminalOnce ==
  /\ [](\A n \in 1..Len(toolResults) :
          /\ Cardinality({s \in {"unknown", "badargs", "success", "storeerror"} :
                            CASE s = "unknown" -> RejectedUnknown(n)
                              [] s = "badargs" -> RejectedBadArgs(n)
                              [] s = "success" -> AppliedSuccess(n)
                              [] s = "storeerror" -> AppliedStoreError(n)}) = 1
          /\ Cardinality(StoreCallsOf(n)) <= 1)
  /\ [][requests' = requests =>
          /\ Len(toolResults') \in {Len(toolResults), Len(toolResults) + 1}
          /\ SubSeq(toolResults', 1, Len(toolResults)) = toolResults
          /\ SubSeq(storeCalls', 1, Len(storeCalls)) = storeCalls
          /\ \A k \in (Len(storeCalls) + 1)..Len(storeCalls') :
               storeCalls'[k].call = Len(toolResults')]_vars

C21_Witness ==
  /\ Executor
  /\ Len(Invocations) = 2
  /\ AppliedStoreError(1)
  /\ Invocations[1].function = "delete_task"
  /\ \E k \in StoreCallsOf(1) : storeCalls[k].code = "fetch"
  /\ AppliedSuccess(2)
  /\ Invocations[2].function = "delete_task"
  /\ tasks # arrived

\* the arguments text of some tool call of the reply is not valid JSON
SomeArgumentsMalformed ==
  \E k \in 1..Len(ProposedCalls) : ~ProposedCalls[k].function.arguments.wellFormed

\* C28: when the arguments text of one tool call of the reply is not valid
\* JSON, processAIChat returns the fixed error message and no tool calls: no
\* invocation of the reply is executed, the table is as the request found it,
\* and the response is 200 with executedTools 0 and no results.
C28_MalformedArgumentsDropAllCalls ==
  SomeArgumentsMalformed =>
    /\ aiResponse
         = [message |-> "I apologize, but I encountered an error processing your request. Please try again."]
    /\ toolResults = <<>>
    /\ tasks = arrived
    /\ \A k \in 1..Len(storeCalls) : storeCalls[k].call = 0 /\ storeCalls[k].op = "select"
    /\ Done =>
         /\ response.status = 200
         /\ response.body.response = aiResponse.message
         /\ response.body.executedTools = 0
         /\ response.body.toolResults = <<>>

C28_Witness ==
  /\ Done
  /\ Len(ProposedCalls) = 2
  /\ ProposedCalls[1].function.arguments.wellFormed
  /\ ProposedCalls[1].function.name = "delete_task"
  /\ ~ProposedCalls[2].function.arguments.wellFormed
  /\ response.status = 200

\* the task-list fetch the handler makes for context was refused by the store
ContextFetchFailed ==
  \E k \in 1..Len(storeCalls) :
    storeCalls[k].call = 0 /\ storeCalls[k].op = "select" /\ storeCalls[k].code # ""

\* C29: when the task-list fetch for context fails with a store error, the
\* request is answered 500, the model is not called, no invocation is executed
\* and the table is as the request found it.
C29_ContextFetchFailureIs500 ==
  ContextFetchFailed =>
    /\ Done
    /\ response.status = 500
    /\ response.body = [error |-> "Internal server error"]
    /\ modelCalls = 0
    /\ reply = NoReply
    /\ toolResults = <<>>
    /\ Len(storeCalls) = 1
    /\ tasks = arrived

C29_Witness ==
  /\ Done
  /\ ContextFetchFailed
  /\ Caller = UserA
  /\ BodyAccepted
  /\ response.status = 500
  /\ requests = 2
  /\ tasks # InitialTable

MaxZoneShift == 1   \* the caller's clock is 0..MaxZoneShift ticks ahead of the server's

\* the start of the caller's calendar day, on the server's clock, for a caller
\* whose local time is shift ticks ahead
CallerStartOfDay(now, shift) == (now + shift) - ((now + shift) % DayTicks) - shift

\* the rows invocation n found that are the caller's, pass its status filter,
\* and are due within the calendar day of a caller shift ticks ahead
TodayExpected(n, shift) ==
  {i \in 1..Len(before[n]) :
     /\ before[n][i].user_id = Caller
     /\ PassesStatus(before[n][i], Invocations[n].arguments)
     /\ before[n][i].due_at # JNull
     /\ before[n][i].due_at.v >= CallerStartOfDay(clock, shift)
     /\ before[n][i].due_at.v < CallerStartOfDay(clock, shift) + DayTicks}

\* C23: list_tasks with due_filter today returns exactly the tasks, among
\* those passing the status filter, whose due date is set and lies between
\* the start of the caller's local calendar day and the start of the next,
\* wherever the caller is.
C23_TodayIsCallersDay ==
  Executor =>
    \A n \in 1..Len(Invocations) :
      ListedBy(n, JText(S_today)) =>
        \A shift \in 0..MaxZoneShift :
          /\ {Results[n].data[j] : j \in 1..Len(Results[n].data)}
               = {before[n][i] : i \in TodayExpected(n, shift)}
          /\ Len(Results[n].data) = Cardinality(TodayExpected(n, shift))

\* C23 for a caller in the server's time zone (the part of C23 that holds)
C23_TodayIsServersDay ==
  Executor =>
    \A n \in 1..Len(Invocations) :
      ListedBy(n, JText(S_today)) =>
        /\ {Results[n].data[j] : j \in 1..Len(Results[n].data)}
             = {before[n][i] : i \in TodayExpected(n, 0)}
        /\ Len(Results[n].data) = Cardinality(TodayExpected(n, 0))

\* two characters are the same letter, whatever their case
SameLetter(a, b) ==
  \/ a = b
  \/ a \in DOMAIN LowerOf /\ LowerOf[a] = b
  \/ b \in DOMAIN LowerOf /\ LowerOf[b] = a

\* the text contains the term, letter case ignored
ContainsFolded(text, term) ==
  \E k \in 0..(Len(text) - Len(term)) :
    \A i \in 1..Len(term) : SameLetter(text[k + i], term[i])

\* the row passes the due filter of the arguments, if they have one of the
\* three; the day of today is the one the handler computes
PassesDue(row, args, now) ==
  CASE Get(args, "due_filter") = JText(S_today) ->
         /\ row.due_at # JNull
         /\ row.due_at.v >= CallerStartOfDay(now, 0)
         /\ row.due_at.v < CallerStartOfDay(now, 0) + DayTicks
    [] Get(args, "due_filter") = JText(S_overdue) ->
         row.due_at # JNull /\ row.due_at.v < now /\ row.status # JText(S_done)
    [] Get(args, "due_filter") = JText(S_upcoming) ->
         row.due_at # JNull /\ row.due_at.v > now /\ row.status # JText(S_done)
    [] OTHER -> TRUE

\* the row passes the search of the arguments, if they have a term
PassesSearch(row, args) ==
  Get(args, "search") # Undefined =>
    \/ ContainsFolded(row.title.v, Get(args, "search").v)
    \/ row.description # JNull /\ ContainsFolded(row.description.v, Get(args, "search").v)

\* the rows invocation n found that are the caller's and pass every filter
\* its arguments validly name
ListExpected(n) ==
  {i \in 1..Len(before[n]) :
     /\ before[n][i].user_id = Caller
     /\ PassesStatus(before[n][i], Invocations[n].arguments)
     /\ PassesDue(before[n][i], Invocations[n].arguments, clock)
     /\ PassesSearch(before[n][i], Invocations[n].arguments)}

\* invocation n is a list_tasks that succeeded, with a search term
Searched(n) ==
  /\ Invocations[n].function = "list_tasks"
  /\ IsString(Get(Invocations[n].arguments, "search"))
  /\ StrLen(Get(Invocations[n].arguments, "search")) > 0
  /\ Results[n].success

C24_WitnessDescription ==
  /\ Executor
  /\ \E n \in 1..Len(Invocations) :
       /\ Searched(n)
       /\ \E j \in 1..Len(Results[n].data) :
            ~ContainsFolded(Results[n].data[j].title.v, Get(Invocations[n].arguments, "search").v)

\* invocation n is a list_tasks whose status or due_filter is present and
\* is none of the values the operation declares
BadListFilter(n) ==
  /\ Invocations[n].function = "list_tasks"
  /\ \/ Get(Invocations[n].arguments, "status") \notin {Undefined, JText(S_pending), JText(S_done)}
     \/ Get(Invocations[n].arguments, "due_filter")
          \notin {Undefined, JText(S_today), JText(S_overdue), JText(S_upcoming)}

\* C30: a list_tasks whose status or due_filter is none of the declared
\* values runs as if that filter were absent: it makes exactly one store list
\* call and, when the store answers it, yields a success result holding the
\* tasks the remaining filters select.
C30_BadFilterIgnored ==
  Executor =>
    \A n \in 1..Len(Invocations) :
      BadListFilter(n) =>
        /\ Cardinality(StoreCallsOf(n)) = 1
        /\ \A k \in StoreCallsOf(n) : storeCalls[k].op = "select"
        /\ StoreAccepted(n) =>
             /\ Results[n].success
             /\ {Results[n].data[j] : j \in 1..Len(Results[n].data)}
                  = {before[n][i] : i \in ListExpected(n)}
             /\ Len(Results[n].data) = Cardinality(ListExpected(n))

\* a bad status came with a valid due filter, which alone selected: of two
\* tasks of the caller one was returned
C30_Witness ==
  /\ Executor
  /\ \E n \in 1..Len(Invocations) :
       /\ BadListFilter(n)
       /\ Get(Invocations[n].arguments, "status") = JText(T_soy)
       /\ Get(Invocations[n].arguments, "due_filter") = JText(S_upcoming)
       /\ Results[n].success
       /\ Len(Results[n].data) = 1
       /\ Cardinality({i \in 1..Len(before[n]) : before[n][i].user_id = Caller}) = 2

\* a bad due filter came with a valid status, which alone selected
C30_WitnessDueFilter ==
  /\ Executor
  /\ \E n \in 1..Len(Invocations) :
       /\ BadListFilter(n)
       /\ Get(Invocations[n].arguments, "due_filter") = JText(T_soy)
       /\ Results[n].success
       /\ Len(Results[n].data) = 1
       /\ Results[n].data[1].status = JText(S_done)

\* C25: retryAICall and retryEmailSend, for maxRetries at least 1, call the
\* wrapped function at most maxRetries times and never after a success,
\* return what the first successful call gave, throw the error of the last
\* call after maxRetries failures, and wait baseDelay * 2^k after failed
\* call k (counted from 0) except after the final one.
C25_RetryContract ==
  (retry.pc # "idle" /\ retry.maxRetries >= 1) =>
    LET n == Len(retry.calls)
        failed == {k \in 1..n : ~retry.calls[k].ok}
        final == {k \in failed : k = retry.maxRetries}
    IN /\ n <= retry.maxRetries
       /\ \A k \in 1..(n - 1) : ~retry.calls[k].ok
       /\ retry.pc = "loop" => n < retry.maxRetries /\ failed = 1..n
       /\ retry.pc = "returned" =>
            n >= 1 /\ retry.calls[n].ok /\ retry.result = retry.calls[n].value
       /\ retry.pc = "threw" =>
            /\ n = retry.maxRetries
            /\ failed = 1..n
            /\ retry.result = retry.calls[n].error
       /\ Len(retry.waits) = Cardinality(failed \ final)
       /\ \A k \in 1..Len(retry.waits) :
            retry.waits[k] = IF k = 1 THEN retry.baseDelay ELSE 2 * retry.waits[k - 1]

\* three calls failed in different ways: two waits, the second twice the
\* first, and the third error thrown
C25_Witness ==
  /\ retry.pc = "threw"
  /\ retry.maxRetries = 3
  /\ Len(retry.calls) = 3
  /\ retry.calls[1].error[1] # retry.calls[3].error[1]
  /\ retry.result = retry.calls[3].error
  /\ retry.waits = <<retry.baseDelay, 2 * retry.baseDelay>>

\* the second call succeeded and nothing was called after it
C25_WitnessReturned ==
  /\ retry.pc = "returned"
  /\ retry.maxRetries = 3
  /\ Len(retry.calls) = 2
  /\ Len(retry.waits) = 1

\* the results so far are those of the first emails, in order; every email
\* whose send did not give data has a failure result; and a finished run
\* invoked the send once for every email, in order
BatchInOrder ==
  batch.pc # "idle" =>
    /\ Len(batch.results) <= Len(batch.emails)
    /\ \A k \in 1..Len(batch.results) :
         /\ batch.results[k].to = batch.emails[k].to
         /\ batch.outcomes[k] # "data" => ~batch.results[k].result.success
         /\ batch.emails[k].tasks = 0 => ~batch.results[k].result.success
         /\ (batch.outcomes[k] = "data" /\ batch.emails[k].tasks > 0) =>
              batch.results[k].result.success
    /\ batch.pc = "returned" =>
         /\ Len(batch.results) = Len(batch.emails)
         /\ batch.sends = [k \in 1..Len(batch.emails) |-> k]

\* C26: batchSendEmails ends, for every list of emails and every batchSize
\* of at least 1, with exactly one result per email in the order of the
\* input; an email whose send fails or throws gets a success = false result,
\* and every other email, of the same batch or a later one, is still sent.
C26_BatchOneResultEach == []BatchInOrder /\ <>(batch.pc = "returned")

\* three emails in batches of two: the first send threw, the second email
\* and the one of the next batch were sent and succeeded
C26_Witness ==
  /\ batch.pc = "returned"
  /\ Len(batch.emails) = 3
  /\ batch.batchSize = 2
  /\ batch.outcomes[1] = "reject"
  /\ ~batch.results[1].result.success
  /\ batch.results[2].result.success
  /\ batch.results[3].result.success
  /\ batch.emails[1].to # batch.emails[2].to

\* both requests have pushed their result
RaceOver == race # <<>> /\ \A p \in 1..2 : race.proc[p].pc = "done"

\* the requests whose arguments carry field k, and the one of them whose
\* statement the store applied last
Writers(k) == {p \in 1..2 : k \in DOMAIN race.proc[p].input.v}
LastWriter(k) ==
  CHOOSE p \in Writers(k) :
    \A q \in Writers(k) :
      \A i, j \in 1..Len(race.applied) :
        (race.applied[i] = p /\ race.applied[j] = q) => j <= i

\* C22: two requests at once at update_task on the same task of theirs both
\* report success, whatever the order; each field ends at the value of the
\* last applied statement among those that wrote it, a field only one wrote
\* keeps that one's value, and a field none wrote is as it was.
C22_LastWriteWins ==
  RaceOver =>
    /\ \A p \in 1..2 : race.proc[p].result.success
    /\ Len(tasks) = Len(InitialTable)
    /\ \A i \in 1..Len(tasks) :
         IF InitialTable[i].id # Own THEN tasks[i] = InitialTable[i]
         ELSE \A k \in UpdateTaskKeys :
                IF Writers(k) = {} THEN tasks[i][k] = InitialTable[i][k]
                ELSE SameValue(k, tasks[i][k], race.proc[LastWriter(k)].input.v[k])

\* both wrote the title, differently, and the second request's statement was
\* applied first: the title is the first request's, the status, which only
\* the second wrote, is the second's
C22_Witness ==
  /\ RaceOver
  /\ race.applied = <<2, 1>>
  /\ Writers("title") = {1, 2}
  /\ race.proc[1].input.v.title # race.proc[2].input.v.title
  /\ Writers("status") = {2}
  /\ \E i \in 1..Len(tasks) :
       /\ tasks[i].id = Own
       /\ tasks[i].title = race.proc[1].input.v.title
       /\ tasks[i].status = race.proc[2].input.v.status
       /\ tasks[i].status # InitialTable[i].status

\* any two reminders for the same task are more than one hour apart
RemindersSpaced ==
  \A j, k \in 1..Len(posts) :
    (j < k /\ posts[j].task_id = posts[k].task_id) => posts[k].at - posts[j].at > HourTicks

\* every reminder a step issues is for a task that was pending, had a due
\* date no later than now plus its owner's lead time, whose owner has
\* reminders on, and whose last reminder was none or more than one hour old;
\* the step stamps that task with the current time
RemindedOnlyWhenDue ==
  \A k \in (Len(posts) + 1)..Len(posts') :
    /\ posts'[k].at = clock
    /\ \E i \in 1..Len(tasks) :
         /\ tasks[i].id = posts'[k].task_id
         /\ tasks[i].status = JText(S_pending)
         /\ tasks[i].due_at # JNull
         /\ \E p \in 1..Len(preferences) :
              /\ preferences[p].user_id = tasks[i].user_id
              /\ preferences[p].reminder_on
              /\ tasks[i].due_at.v <= clock + preferences[p].lead_time_min
         /\ \/ tasks[i].last_reminder_sent = JNull
            \/ clock - tasks[i].last_reminder_sent.v > HourTicks
         /\ tasks'[i].last_reminder_sent = JTz(clock)

\* C27: send_email_reminders issues a reminder for a task only if it is
\* pending, has a due date no later than now plus its owner's lead time, its
\* owner has reminders on and its last_reminder_sent is null or more than
\* one hour old, and stamps last_reminder_sent as it issues it; so over any
\* sequence of runs two reminders for one task are more than one hour apart.
C27_RemindersAtMostHourly == []RemindersSpaced /\ [][RemindedOnlyWhenDue]_vars

\* a task was reminded twice, the second time as soon as the hour was over
C27_Witness ==
  /\ \E j, k \in 1..Len(posts) :
       /\ j < k
       /\ posts[j].task_id = Own
       /\ posts[k].task_id = Own
       /\ posts[k].at - posts[j].at = HourTicks + 1
  /\ \E i \in 1..Len(tasks) :
       tasks[i].id = Own /\ tasks[i].last_reminder_sent = JTz(clock)

====
